---- MODULE Spec2Model ----
(***************************************************************************)
(* Model of the Elfa SDK: the response enhancer (ResponseEnhancer), the    *)
(* retrying HTTP transport (HttpClient), the parameter validation of the   *)
(* primary API client (ElfaV2Client), the tweet lookup of TwitterClient    *)
(* and the facade (ElfaSDK).  Each component has its own specification;    *)
(* a specification leaves the variables of the other components idle.      *)
(*                                                                         *)
(* Conventions.  A JavaScript value that may be undefined is a sequence of *)
(* length 0 (undefined) or 1 (the value).  A string that the code parses   *)
(* or builds is a sequence of one-character strings; in a URL the literal  *)
(* "/status/" is one token.  A message built by concatenation is the       *)
(* sequence of its pieces.                                                 *)
(***************************************************************************)
EXTENDS Integers, Sequences, FiniteSets, TLC

VARIABLES
    \* ---- ResponseEnhancer ----
    twitterClient,   \* this.twitterClient is set
    batchSize,       \* this.batchSize
    pc,              \* "idle", "awaiting" (a getTweets call is pending), "returned", "thrown"
    op,              \* the enhance operation invoked
    mentions,        \* its first argument
    options,         \* its second argument
    tweetIds,        \* the ids extracted from the mentions
    i,               \* fetchTwitterData's loop index
    allTweets,       \* fetchTwitterData's accumulators
    allUsers,
    calls,           \* the getTweets calls made, in order: [ids, outcome, response, error]
    result,          \* the value the operation returned, if it returned
    thrown,          \* the error the operation raised, if it raised
    \* ---- HttpClient.request ----
    hpc,             \* "idle", "sending", "delaying", "returned", "thrown"
    maxRetries,
    retryDelay,
    attempt,
    sends,           \* number of this.client.request calls made
    delays,          \* the delays waited, in order
    lastError,
    hresult,         \* response.data returned / error raised by request
    axiosError,      \* the error axios gave the response interceptor for the last failed send
    receivedAt,      \* the clock (ms since the epoch) when the last failed response arrived
    httpOptions,     \* this.options of the HttpClient
    \* ---- ElfaV2Client ----
    apc,             \* "idle", "returned" (request handed to the transport), "thrown"
    endpoint,
    params,
    requests,        \* the requests handed to httpClient.get, in order
    aerror,          \* the error the endpoint method raised, if it raised
    \* ---- TwitterClient.getTweets ----
    tpc,             \* "idle", "awaiting" (httpClient.get is pending), "returned", "thrown"
    trequest,        \* request.tweetIds of the call
    transport,       \* the lookups handed to httpClient.get, in order: the ids each carries
    tresult,         \* the body returned / the error raised by getTweets
    \* ---- ResponseEnhancer.calculateEnhancedMetrics ----
    mtweet,          \* its tweet argument
    muser,           \* its user argument
    mmetrics,        \* the metrics object it returned, once it was applied
    \* ---- ElfaSDK ----
    constructorOptions, \* the options the constructor was given
    sdkOptions,      \* this.options
    spc,             \* "idle", "primary" (the Elfa request is pending), "enhancing",
                     \* "probingElfa", "probingTwitter", "returned", "thrown"
    sdkOp,           \* the operation invoked
    sdkParams,       \* its RequestOptions: fetchRawTweets, enhancementOptions
    primary,         \* the outcome of the primary fetch, once it settled
    enhancerInvoked, \* the operation called this.enhancer
    sdkResult,       \* the value returned / the error raised by the operation
    probes,          \* the connection probes run, in order: [leg, outcome]
    updateError,     \* the error the last updateOptions call raised, if it raised
    \* ---- PaginationHelper ----
    ppc,             \* "idle", "awaiting" (fetchPage is pending), "returned", "thrown"
    collector,       \* "collectAllPages" or "collectAllCursor"
    maxItems,        \* its maxItems argument
    pageSize,        \* iteratePages' pageSize
    currentPage,     \* iteratePages' currentPage
    cursor,          \* iterateCursor's cursor
    allItems,        \* the items collected so far
    fetched,         \* the pages fetchPage returned, in order: [params, response]
    collected        \* the array returned / the error raised by the collector

enhVars == <<twitterClient, batchSize, pc, op, mentions, options, tweetIds, i,
             allTweets, allUsers, calls, result, thrown>>
httpVars == <<hpc, maxRetries, retryDelay, attempt, sends, delays, lastError, hresult,
              axiosError, receivedAt, httpOptions>>
apiVars == <<apc, endpoint, params, requests, aerror>>
twVars == <<tpc, trequest, transport, tresult>>
metricVars == <<mtweet, muser, mmetrics>>
sdkVars == <<constructorOptions, sdkOptions, spc, sdkOp, sdkParams, primary, enhancerInvoked,
             sdkResult, probes, updateError>>
pagVars == <<ppc, collector, maxItems, pageSize, currentPage, cursor, allItems, fetched,
             collected>>
vars == <<enhVars, httpVars, apiVars, twVars, metricVars, sdkVars, pagVars>>

-----------------------------------------------------------------------------
(* Bounds of the model *)

\* longest list of mentions handed to an enhance operation
MaxMentions == 2

\* largest retry count a caller configures explicitly
MaxConfiguredRetries == 2

-----------------------------------------------------------------------------
(* JavaScript values *)

None == <<>>
Some(v) == <<v>>
IsSome(o) == o # <<>>
Val(o) == o[1]

\* !!x for an optional boolean
Truthy(o) == IsSome(o) /\ Val(o) = TRUE

DigitSeq == <<"0", "1", "2", "3", "4", "5", "6", "7", "8", "9">>
DigitChars == {DigitSeq[k] : k \in 1..10}
IsDigit(c) == c \in DigitChars
DigitValue(c) == CHOOSE d \in 0..9 : DigitSeq[d + 1] = c

\* Number.prototype.toString() of a non-negative integer
RECURSIVE NumberToString(_)
NumberToString(n) ==
    IF n < 10 THEN <<DigitSeq[n + 1]>>
    ELSE NumberToString(n \div 10) \o <<DigitSeq[(n % 10) + 1]>>

\* the longest run of digits of s that starts at index j (s[j] is a digit)
DigitRun(s, j) ==
    LET last == CHOOSE k \in j..Len(s) :
                    /\ \A m \in j..k : IsDigit(s[m])
                    /\ (k = Len(s) \/ ~IsDigit(s[k + 1]))
    IN SubSeq(s, j, last)

-----------------------------------------------------------------------------
(* ResponseEnhancer: pure helpers *)

StatusToken == "/status/"

\* url.match(/\/status\/(\d+)/): the first "/status/" followed by a digit,
\* and the digits after it
extractTweetIdAnyDigits(url) ==
    IF \E k \in 1..Len(url) : IsDigit(url[k])
    THEN Some(DigitRun(url, CHOOSE k \in 1..Len(url) :
                                  IsDigit(url[k]) /\ \A m \in 1..(k - 1) : ~IsDigit(url[m])))
    ELSE None

extractTweetId(url) ==
    LET hits == {k \in 1..(Len(url) - 1) : url[k] = StatusToken /\ IsDigit(url[k + 1])}
    IN IF hits = {} THEN None
       ELSE LET first == CHOOSE k \in hits : \A m \in hits : k <= m
            IN Some(DigitRun(url, first + 1))

\* mention.id is a number: 0 is falsy, and V1 mentions carry no url or link
extractTweetIdFromV1Mention(mention) ==
    IF mention.id # 0 THEN Some(NumberToString(mention.id)) ELSE None

Ops == {"processed", "simple", "accountToken", "topV2", "topV1"}
TopOps == {"topV2", "topV1"}

\* the correlation id of one mention, as the operation o derives it
CorrelationId(o, mention) ==
    CASE o = "processed" -> extractTweetId(mention.link)
      [] o = "topV2" -> extractTweetId(mention.link)
      [] o = "accountToken" -> extractTweetId(mention.originalUrl)
      [] o = "simple" -> Some(mention.twitter_id)
      [] o = "topV1" -> extractTweetIdFromV1Mention(mention)

\* xs.map(f).filter(Boolean) for a map into optional values
MapFilter(o, ms) ==
    LET mapped == [k \in 1..Len(ms) |-> CorrelationId(o, ms[k])]
        kept == SelectSeq(mapped, LAMBDA id : IsSome(id))
    IN [k \in 1..Len(kept) |-> Val(kept[k])]

ExtractIds(o, ms) == MapFilter(o, ms)

\* calculateEnhancedMetrics dividing whenever impression_count is defined
calculateEnhancedMetricsDefinedOnly(tweet, user) ==
    LET pm == tweet.public_metrics
        totalEngagements ==
            Val(pm).like_count + Val(pm).retweet_count
                + Val(pm).reply_count + Val(pm).quote_count
    IN [impression_count |->
            IF IsSome(pm) THEN Val(pm).impression_count ELSE None,
        engagement_rate |->
            IF IsSome(pm) /\ IsSome(Val(pm).impression_count)
            THEN Some(<<totalEngagements, Val(Val(pm).impression_count)>>)
            ELSE None,
        reach |-> None,
        twitter_verified |-> None]

\* calculateEnhancedMetrics; a rate is the pair <<numerator, denominator>>
calculateEnhancedMetrics(tweet, user) ==
    LET pm == tweet.public_metrics
        totalEngagements ==
            Val(pm).like_count + Val(pm).retweet_count
                + Val(pm).reply_count + Val(pm).quote_count
    IN [impression_count |->
            IF IsSome(pm) THEN Val(pm).impression_count ELSE None,
        engagement_rate |->
            IF /\ IsSome(pm)
               /\ IsSome(Val(pm).impression_count)
               /\ Val(Val(pm).impression_count) # 0
               /\ Val(Val(pm).impression_count) > 0
            THEN Some(<<totalEngagements, Val(Val(pm).impression_count)>>)
            ELSE None,
        reach |->
            IF IsSome(user) /\ IsSome(Val(user).public_metrics)
            THEN Some(Val(Val(user).public_metrics).followers_count)
            ELSE None,
        twitter_verified |->
            IF IsSome(user)
            THEN Some(Truthy(Val(user).verified) \/ IsSome(Val(user).verified_type))
            ELSE None]

\* Map.get after the forEach/set loop: the last entry with that key
MapGet(entries, key) ==
    LET hits == {k \in 1..Len(entries) : entries[k].id = key}
    IN IF hits = {} THEN None
       ELSE Some(entries[CHOOSE k \in hits : \A m \in hits : m <= k])

\* { ...mention, data_source: "elfa" }
Unenhanced(mention) ==
    [mention |-> mention, data_source |-> "elfa", content |-> mention.content,
     enhanced_metrics |-> None, twitter_data |-> None]

\* one element of the merge*WithTwitterData map callback
MergeOne(o, mention, tweets, users) ==
    LET tweetId == CorrelationId(o, mention)
        tweet == IF IsSome(tweetId) THEN MapGet(tweets, Val(tweetId)) ELSE None
        user == IF IsSome(tweet) THEN MapGet(users, Val(tweet).author_id) ELSE None
    IN IF IsSome(tweet)
       THEN [mention |-> mention,
             data_source |-> "elfa+twitter",
             content |-> Some(Val(tweet).text),
             enhanced_metrics |-> Some(calculateEnhancedMetrics(Val(tweet), user)),
             twitter_data |-> Some([tweet |-> Val(tweet), user |-> user])]
       ELSE Unenhanced(mention)

Merge(o, ms, tweets, users) ==
    [k \in 1..Len(ms) |-> MergeOne(o, ms[k], tweets, users)]

AllUnenhanced(ms) == [k \in 1..Len(ms) |-> Unenhanced(ms[k])]

CountEnhanced(data) == Cardinality({k \in 1..Len(data) : data[k].data_source = "elfa+twitter"})

-----------------------------------------------------------------------------
(* The Twitter API as the enhancer sees it: TwitterClient.getTweets *)

\* twitter API's cap on the ids of one lookup
MaxIdsPerRequest == 100

User1 ==
    [id |-> "u1", verified |-> Some(FALSE), verified_type |-> Some("blue"),
     public_metrics |-> Some([followers_count |-> 7])]

Tweet1 ==
    [id |-> <<"1">>, text |-> "text of 1", author_id |-> "u1",
     public_metrics |-> Some([like_count |-> 1, retweet_count |-> 1, reply_count |-> 0,
                              quote_count |-> 0, impression_count |-> Some(4)])]

Tweet12 ==
    [id |-> <<"1", "2">>, text |-> "text of 12", author_id |-> "u2",
     public_metrics |-> None]

\* the tweets that exist remotely (no tweet has id 2: deleted or protected)
TweetUniverse == <<Tweet1, Tweet12>>
UserUniverse == <<User1>>

\* the sub-sequence of xs at the index set keep
RECURSIVE Pick(_, _, _)
Pick(xs, keep, k) ==
    IF k > Len(xs) THEN <<>>
    ELSE (IF k \in keep THEN <<xs[k]>> ELSE <<>>) \o Pick(xs, keep, k + 1)

InBatch(batch, id) == \E k \in 1..Len(batch) : batch[k] = id

\* the bodies a lookup of batch can answer with: any of the requested tweets
\* that exist, with or without the users section
LookupResponses(batch) ==
    LET found == {k \in 1..Len(TweetUniverse) : InBatch(batch, TweetUniverse[k].id)}
    IN {[data |-> Pick(TweetUniverse, keep, 1), includes |-> inc] :
            keep \in SUBSET found, inc \in {None, Some([users |-> UserUniverse])}}

TwitterApiError(message) == [name |-> "TwitterApiError", message |-> message]

\* xs.join(", ")
RECURSIVE Join(_)
Join(xs) ==
    IF Len(xs) = 0 THEN <<>>
    ELSE IF Len(xs) = 1 THEN <<xs[1]>>
    ELSE <<xs[1], ", ">> \o Join(Tail(xs))

\* response.errors?.length
HasErrors(body) == IsSome(body.errors) /\ Len(Val(body.errors)) # 0

\* the error thrown inside the try block for a body that lists errors
BodyErrorsFailure(errors) ==
    TwitterApiError(<<"Twitter API errors: ">> \o Join([k \in 1..Len(errors) |-> errors[k].title]))

\* error instanceof TwitterApiError.  The ElfaSDKError constructor ends with
\* Object.setPrototypeOf(this, ElfaSDKError.prototype), which runs for every
\* subclass instance too: no error object has TwitterApiError.prototype in its
\* prototype chain.
InstanceOfTwitterApiError(error) == FALSE

\* the catch block of getTweets
CatchInGetTweets(error) ==
    IF InstanceOfTwitterApiError(error) THEN error
    ELSE TwitterApiError(<<"Failed to fetch tweets: ">> \o error.message)

\* the errors a lookup can end with
LookupErrors ==
    {CatchInGetTweets([name |-> "NetworkError", message |-> <<"Network error: ", "timeout">>]),
     CatchInGetTweets(BodyErrorsFailure(<<[title |-> "Not Found Error"]>>))}

\* getTweets(request): the outcomes of one call, [ok, value]
getTweets(batch) ==
    IF Len(batch) = 0 THEN {[ok |-> TRUE, value |-> [data |-> <<>>, includes |-> None]]}
    ELSE IF Len(batch) > MaxIdsPerRequest
    THEN {[ok |-> FALSE,
           value |-> TwitterApiError(<<"Cannot fetch more than 100 tweets at once">>)]}
    ELSE {[ok |-> TRUE, value |-> r] : r \in LookupResponses(batch)}
         \cup {[ok |-> FALSE, value |-> e] : e \in LookupErrors}

-----------------------------------------------------------------------------
(* ResponseEnhancer: the inputs of the model *)

\* link / originalUrl values; "x" stands for any other character
Links ==
    {<<"x", "/status/", "1">>,            \* .../status/1
     <<"x", "/status/", "2", "x">>,       \* .../status/2?s=20
     <<"x", "/status/", "1", "2">>,       \* .../status/12
     <<"x", "1">>,                        \* digits, no /status/
     <<"/status/", "x", "2">>}            \* /status/ not followed by a digit

TwitterIds == {<<"1">>, <<"2">>, <<"1", "2">>}
V1Ids == {0, 1, 2, 12}

\* the mentions an operation takes; ProcessedMention and TopMentionV2 have no
\* content field, the other shapes have one
MentionsOf(o) ==
    CASE o \in {"processed", "topV2"} -> {[link |-> l, content |-> None] : l \in Links}
      [] o = "accountToken" -> {[originalUrl |-> l, content |-> Some("elfa text")] : l \in Links}
      [] o = "simple" -> {[twitter_id |-> t, content |-> Some("elfa text")] : t \in TwitterIds}
      [] o = "topV1" -> {[id |-> n, content |-> Some("elfa text")] : n \in V1Ids}

SeqsUpTo(S, n) == UNION {[1..k -> S] : k \in 0..n}

OptionValues ==
    [includeContent : {None, Some(TRUE), Some(FALSE)},
     fallbackToV2 : {None, Some(TRUE), Some(FALSE)},
     batchSize : {None, Some(0), Some(1)}]

\* the batch sizes an enhancer is constructed with (100 is the default)
ConstructedBatchSizes == {2, MaxIdsPerRequest}

-----------------------------------------------------------------------------
(* ResponseEnhancer: the enhance operations *)

\* the result of the precondition and empty-id-set short circuits
ShortCircuitResult(ms) ==
    [data |-> AllUnenhanced(ms),
     enhancement_info |-> [total_enhanced |-> 0, failed_enhancements |-> 0,
                           twitter_api_used |-> FALSE, errors |-> None]]

\* the number failed_enhancements is computed from after a successful fetch
AttemptedCount(o, ms, ids) == IF o \in TopOps THEN Len(ids) ELSE Len(ms)

\* the result of the try block
SuccessResult(o, ms, ids, tweets, users) ==
    LET enhanced == Merge(o, ms, tweets, users)
    IN [data |-> enhanced,
        enhancement_info |->
            [total_enhanced |-> CountEnhanced(enhanced),
             failed_enhancements |-> AttemptedCount(o, ms, ids) - CountEnhanced(enhanced),
             twitter_api_used |-> TRUE, errors |-> None]]

\* the result of the catch block when falling back
DegradedResultNoCount(ms, error) ==
    [data |-> AllUnenhanced(ms),
     enhancement_info |-> [total_enhanced |-> 0, failed_enhancements |-> 0,
                           twitter_api_used |-> FALSE, errors |-> Some(<<error.message>>)]]

DegradedResult(ms, error) ==
    [data |-> AllUnenhanced(ms),
     enhancement_info |-> [total_enhanced |-> 0, failed_enhancements |-> Len(ms),
                           twitter_api_used |-> FALSE, errors |-> Some(<<error.message>>)]]

\* the catch block's test: options.fallbackToV2 !== false in the three mention
\* operations, options.fallbackToV2 in the two top-mentions operations
FallbackEnabled(o, opts) ==
    IF o \in TopOps THEN Truthy(opts.fallbackToV2) ELSE opts.fallbackToV2 # Some(FALSE)

EnhancementError(o, error) ==
    [name |-> "EnhancementError",
     message |-> CASE o = "topV2" -> <<"Failed to enhance TopMentionsV2: ">> \o error.message
                   [] o = "topV1" -> <<"Failed to enhance TopMentionsV1: ">> \o error.message
                   [] OTHER -> <<"Failed to enhance mentions with Twitter data">>,
     details |-> error]

\* options.batchSize || this.batchSize
EffectiveBatchSize(opts, constructed) ==
    IF IsSome(opts.batchSize) /\ Val(opts.batchSize) # 0
    THEN Val(opts.batchSize) ELSE constructed

\* tweetIds.slice(from, from + n)
SliceToEnd(ids, from, n) == SubSeq(ids, from + 1, Len(ids))

\* (a negative index counts from the end, and every index is clamped to 0..length)
Slice(ids, from, n) ==
    LET index(x) == IF x < 0
                    THEN (IF Len(ids) + x < 0 THEN 0 ELSE Len(ids) + x)
                    ELSE (IF x < Len(ids) THEN x ELSE Len(ids))
    IN SubSeq(ids, index(from) + 1, index(from + n))

\* the entry test of the operations: !this.twitterClient || !options.includeContent
SkipsEnhancementNever(client, opts) == FALSE

SkipsEnhancement(client, opts) == ~client \/ ~Truthy(opts.includeContent)

\* fetchTwitterData's loop from index from on, up to its next await, and, when the
\* loop ends, the merge and the return of the operation
PendingCall(ids) ==
    [ids |-> ids, outcome |-> "pending", response |-> None, error |-> None]

\* the call log with its pending (last) call settled
SettleNothing(log, out) == log

Settle(log, out) ==
    [log EXCEPT ![Len(log)] =
        IF out.ok
        THEN [@ EXCEPT !.outcome = "resolved", !.response = Some(out.value)]
        ELSE [@ EXCEPT !.outcome = "rejected", !.error = Some(out.value)]]

\* allTweets.push(...response.data)
AccumulateLastOnly(all, data) == data

Accumulate(all, data) == all \o data

FetchLoop(o, ms, ids, opts, from, tweets, users, log) ==
    /\ i' = from
    /\ allTweets' = tweets
    /\ allUsers' = users
    /\ thrown' = None
    /\ IF from < Len(ids)
       THEN /\ calls' = Append(log, PendingCall(Slice(ids, from,
                                                         EffectiveBatchSize(opts, batchSize))))
            /\ pc' = "awaiting"
            /\ result' = None
       ELSE /\ calls' = log
            /\ pc' = "returned"
            /\ result' = Some(SuccessResult(o, ms, ids, tweets, users))

ShortCircuit(ms) ==
    /\ pc' = "returned"
    /\ result' = Some(ShortCircuitResult(ms))
    /\ UNCHANGED <<i, allTweets, allUsers, calls, thrown>>

\* enhanceProcessedMentions, enhanceSimpleMentions, enhanceMentionsWithAccountAndToken,
\* enhanceTopMentionsV2, enhanceTopMentionsV1: from the call to the first await
Enhance(o, ms, opts) ==
    /\ pc = "idle"
    /\ op' = o
    /\ mentions' = ms
    /\ options' = opts
    /\ IF SkipsEnhancement(twitterClient, opts)
       THEN tweetIds' = <<>> /\ ShortCircuit(ms)
       ELSE LET ids == IF o = "simple"
                       THEN [k \in 1..Len(ms) |-> ms[k].twitter_id]
                       ELSE ExtractIds(o, ms)
            IN /\ tweetIds' = ids
               /\ IF o # "simple" /\ Len(ids) = 0
                  THEN ShortCircuit(ms)
                  ELSE FetchLoop(o, ms, ids, opts, 0, <<>>, <<>>, calls)
    /\ UNCHANGED <<twitterClient, batchSize>>

\* the pending getTweets call resolves with out: accumulate, then on with the loop
FetchResolvesWith(out) ==
    /\ pc = "awaiting"
    /\ out.ok
    /\ LET response == out.value
           users == IF IsSome(response.includes)
                    THEN Accumulate(allUsers, Val(response.includes).users)
                    ELSE allUsers
       IN FetchLoop(op, mentions, tweetIds, options,
                    i + EffectiveBatchSize(options, batchSize),
                    Accumulate(allTweets, response.data), users, Settle(calls, out))
    /\ UNCHANGED <<twitterClient, batchSize, op, mentions, options, tweetIds>>

\* the pending getTweets call rejects with out: the catch block of the operation
FetchRejectsWith(out) ==
    /\ pc = "awaiting"
    /\ ~out.ok
    /\ calls' = Settle(calls, out)
    /\ IF FallbackEnabled(op, options)
       THEN /\ pc' = "returned"
            /\ result' = Some(DegradedResult(mentions, out.value))
            /\ thrown' = None
       ELSE /\ pc' = "thrown"
            /\ result' = None
            /\ thrown' = Some(EnhancementError(op, out.value))
    /\ UNCHANGED <<twitterClient, batchSize, op, mentions, options, tweetIds,
                   i, allTweets, allUsers>>

FetchResolves ==
    /\ pc = "awaiting"
    /\ \E out \in getTweets(calls[Len(calls)].ids) : FetchResolvesWith(out)

FetchRejects ==
    /\ pc = "awaiting"
    /\ \E out \in getTweets(calls[Len(calls)].ids) : FetchRejectsWith(out)

EnhInit ==
    /\ twitterClient \in BOOLEAN
    /\ batchSize \in ConstructedBatchSizes
    /\ pc = "idle"
    /\ op = "none"
    /\ mentions = <<>>
    /\ options = [includeContent |-> None, fallbackToV2 |-> None, batchSize |-> None]
    /\ tweetIds = <<>>
    /\ i = 0
    /\ allTweets = <<>>
    /\ allUsers = <<>>
    /\ calls = <<>>
    /\ result = None
    /\ thrown = None

-----------------------------------------------------------------------------
(* HttpClient: error classification *)

\* the defaults of the HttpClient constructor and of request
DefaultRetries == 3
DefaultRetryDelay == 1000

\* parseInt(s, 10) of a string of characters: the value of its leading digits,
\* None (NaN) when it has none
RECURSIVE DigitsValue(_)
DigitsValue(ds) ==
    IF ds = <<>> THEN 0
    ELSE 10 * DigitsValue(SubSeq(ds, 1, Len(ds) - 1)) + DigitValue(ds[Len(ds)])

ParseInt(s) ==
    IF s # <<>> /\ IsDigit(s[1]) THEN Some(DigitsValue(DigitRun(s, 1))) ELSE None

\* new Date(n * 1000): its time value in ms, None for an Invalid Date
DateOfSeconds(n) == [time |-> IF IsSome(n) THEN Some(Val(n) * 1000) ELSE None]

\* extractErrorMessage(data)
extractErrorMessage(data) ==
    CASE data.kind = "string" -> data.value
      [] data.kind = "object" ->
            IF IsSome(data.message) THEN Val(data.message)
            ELSE IF IsSome(data.error) THEN Val(data.error)
            ELSE IF IsSome(data.detail) THEN Val(data.detail)
            ELSE "API request failed"
      [] OTHER -> "Unknown API error"

\* a || b for header values: an empty string is falsy
HeaderTruthy(h) == IsSome(h) /\ Val(h) # <<>>

\* extractRateLimitReset(response)
extractRateLimitReset(response) ==
    LET resetHeader == IF HeaderTruthy(response.headers.x_ratelimit_reset)
                       THEN response.headers.x_ratelimit_reset
                       ELSE response.headers.retry_after
    IN IF HeaderTruthy(resetHeader)
       THEN Some(DateOfSeconds(ParseInt(Val(resetHeader))))
       ELSE None

SdkError(name, message, statusCode, resetTime) ==
    [name |-> name, message |-> message, statusCode |-> statusCode, resetTime |-> resetTime]

\* handleResponseError(error): the error it throws
handleResponseErrorAllApi(error) ==
    IF IsSome(error.response)
    THEN SdkError("ElfaApiError", <<extractErrorMessage(Val(error.response).data)>>,
                  Some(Val(error.response).status), None)
    ELSE SdkError("NetworkError", <<"Network error: ", error.message>>, None, None)

handleResponseError(error) ==
    IF IsSome(error.response)
    THEN LET status == Val(error.response).status
             message == <<extractErrorMessage(Val(error.response).data)>>
         IN IF status = 401
            THEN SdkError("AuthenticationError", message, Some(401), None)
            ELSE IF status = 429
            THEN SdkError("RateLimitError", message, Some(429),
                          extractRateLimitReset(Val(error.response)))
            ELSE SdkError("ElfaApiError", message, Some(status), None)
    ELSE IF error.request
    THEN SdkError("NetworkError", <<"Network error: ", error.message>>, None, None)
    ELSE SdkError("NetworkError", <<"Request setup error: ", error.message>>, None, None)

\* isRetryableError(error)
isRetryableErrorClientErrors(error) ==
    \/ error.name \in {"RateLimitError", "NetworkError"}
    \/ /\ error.name = "ElfaApiError"
       /\ IsSome(error.statusCode)
       /\ Val(error.statusCode) >= 400 /\ Val(error.statusCode) < 600

isRetryableError(error) ==
    IF error.name = "RateLimitError" THEN TRUE
    ELSE IF error.name = "NetworkError" THEN TRUE
    ELSE IF error.name = "ElfaApiError" /\ IsSome(error.statusCode)
                                        /\ Val(error.statusCode) # 0
    THEN Val(error.statusCode) >= 500 /\ Val(error.statusCode) < 600
    ELSE FALSE

-----------------------------------------------------------------------------
(* HttpClient: the inputs of the model *)

NoHeaders == [x_ratelimit_reset |-> None, retry_after |-> None]

HeaderValues ==
    {None,
     Some(<<"6", "0">>),            \* "60"
     Some(<<>>),                    \* ""
     Some(<<"W", "e", "d">>)}       \* an HTTP-date

Bodies ==
    {[kind |-> "string", value |-> "plain text"],
     [kind |-> "object", message |-> Some("msg"), error |-> Some("err"), detail |-> None],
     [kind |-> "object", message |-> None, error |-> None, detail |-> Some("det")],
     [kind |-> "object", message |-> None, error |-> None, detail |-> None],
     [kind |-> "none"]}

ErrorStatuses == {400, 401, 404, 429, 499, 500, 599}

\* the errors axios hands to the response interceptor
AxiosErrors ==
    {[response |-> Some([status |-> st, data |-> d, headers |-> NoHeaders]),
      request |-> TRUE, message |-> "Request failed"] :
        st \in ErrorStatuses, d \in Bodies}
    \cup {[response |-> Some([status |-> 429, data |-> [kind |-> "none"],
                              headers |-> [x_ratelimit_reset |-> x, retry_after |-> r]]),
           request |-> TRUE, message |-> "Request failed"] :
            x \in HeaderValues, r \in HeaderValues}
    \cup {[response |-> None, request |-> rq, message |-> "timeout"] : rq \in BOOLEAN}

\* errors of other classes that a transport put in place of axios rejects with
ForeignErrors ==
    {SdkError("ValidationError", <<"invalid">>, None, None),
     SdkError("Error", <<"boom">>, None, None),
     SdkError("TwitterApiError", <<"twitter">>, None, None)}

\* what this.client.request(config) can reject with
RequestRejections ==
    {[axios |-> Some(e), error |-> handleResponseError(e)] : e \in AxiosErrors}
    \cup {[axios |-> None, error |-> e] : e \in ForeignErrors}

RetryCounts == 0..MaxConfiguredRetries

\* the readings of the clock (ms since the epoch) at which a response can arrive
ClockValues == {1000000000, 1000005000}

\* 2^n
RECURSIVE Pow2(_)
Pow2(n) == IF n = 0 THEN 1 ELSE 2 * Pow2(n - 1)

-----------------------------------------------------------------------------
(* HttpClient.request *)

\* a ?? b
Coalesce(a, b) == IF IsSome(a) THEN Val(a) ELSE b

\* the loop test's bound: attempt runs from 0 to maxRetries inclusive
LastAttemptOneMore(att, retries) == att = retries + 1

LastAttempt(att, retries) == att = retries

\* the delay before the send that follows failed attempt att
BackoffDelayFixed(delay, att) == delay

BackoffDelay(delay, att) == delay * Pow2(att)

\* request(config) up to its first await: the first send
Request(config) ==
    /\ hpc = "idle"
    /\ maxRetries' = Coalesce(config.retries, Coalesce(httpOptions.retries, DefaultRetries))
    /\ retryDelay' = Coalesce(config.retryDelay,
                              Coalesce(httpOptions.retryDelay, DefaultRetryDelay))
    /\ attempt' = 0
    /\ sends' = sends + 1
    /\ hpc' = "sending"
    /\ UNCHANGED <<delays, lastError, hresult, axiosError, receivedAt, httpOptions>>
    /\ UNCHANGED <<enhVars, apiVars, twVars, metricVars, sdkVars, pagVars>>

\* this.client.request resolves: return response.data
SendSucceeds ==
    /\ hpc = "sending"
    /\ hresult' = Some([ok |-> TRUE, value |-> "response.data"])
    /\ hpc' = "returned"
    /\ UNCHANGED <<maxRetries, retryDelay, attempt, sends, delays, lastError, axiosError,
                   receivedAt, httpOptions>>
    /\ UNCHANGED <<enhVars, apiVars, twVars, metricVars, sdkVars, pagVars>>

\* this.client.request rejects: the catch block, up to the delay or the throw
SendFails ==
    /\ hpc = "sending"
    /\ \E rejection \in RequestRejections : LET error == rejection.error IN
        /\ lastError' = Some(error)
        /\ axiosError' = rejection.axios
        /\ receivedAt' \in {Some(t) : t \in ClockValues}
        /\ IF LastAttempt(attempt, maxRetries) \/ ~isRetryableError(error)
           THEN /\ hpc' = "thrown"
                /\ hresult' = Some([ok |-> FALSE, value |-> error])
                /\ delays' = delays
           ELSE /\ hpc' = "delaying"
                /\ hresult' = None
                /\ delays' = Append(delays, BackoffDelay(retryDelay, attempt))
    /\ UNCHANGED <<maxRetries, retryDelay, attempt, sends, httpOptions>>
    /\ UNCHANGED <<enhVars, apiVars, twVars, metricVars, sdkVars, pagVars>>

\* the delay elapses: attempt++ and the next send
DelayElapses ==
    /\ hpc = "delaying"
    /\ attempt' = attempt + 1
    /\ sends' = sends + 1
    /\ hpc' = "sending"
    /\ UNCHANGED <<maxRetries, retryDelay, delays, lastError, hresult, axiosError,
                   receivedAt, httpOptions>>
    /\ UNCHANGED <<enhVars, apiVars, twVars, metricVars, sdkVars, pagVars>>

\* new HttpClient(options): { timeout, retries: 3, retryDelay: 1000, ...options }
HttpConstructed ==
    /\ httpOptions \in [retries : {None} \cup {Some(n) : n \in RetryCounts},
                        retryDelay : {None, Some(10)}]

HttpIdle ==
    /\ hpc = "idle"
    /\ maxRetries = 0
    /\ retryDelay = 0
    /\ attempt = 0
    /\ sends = 0
    /\ delays = <<>>
    /\ lastError = None
    /\ hresult = None
    /\ axiosError = None
    /\ receivedAt = None

EnhIdle ==
    /\ twitterClient = FALSE
    /\ batchSize = MaxIdsPerRequest
    /\ pc = "idle"
    /\ op = "none"
    /\ mentions = <<>>
    /\ options = [includeContent |-> None, fallbackToV2 |-> None, batchSize |-> None]
    /\ tweetIds = <<>>
    /\ i = 0
    /\ allTweets = <<>>
    /\ allUsers = <<>>
    /\ calls = <<>>
    /\ result = None
    /\ thrown = None

ApiIdle ==
    /\ apc = "idle"
    /\ endpoint = "none"
    /\ params = None
    /\ requests = <<>>
    /\ aerror = None

TwIdle ==
    /\ tpc = "idle"
    /\ trequest = <<>>
    /\ transport = <<>>
    /\ tresult = None

MetricsIdle ==
    /\ mtweet = None
    /\ muser = None
    /\ mmetrics = None

SdkIdle ==
    /\ constructorOptions = None
    /\ sdkOptions = None
    /\ spc = "idle"
    /\ sdkOp = "none"
    /\ sdkParams = None
    /\ primary = None
    /\ enhancerInvoked = FALSE
    /\ sdkResult = None
    /\ probes = <<>>
    /\ updateError = None

PagIdle ==
    /\ ppc = "idle"
    /\ collector = "none"
    /\ maxItems = None
    /\ pageSize = 0
    /\ currentPage = 0
    /\ cursor = None
    /\ allItems = <<>>
    /\ fetched = <<>>
    /\ collected = None

\* the components a specification of one component leaves untouched
OthersIdle == TwIdle /\ MetricsIdle /\ SdkIdle /\ PagIdle

RequestConfigs ==
    [retries : {None} \cup {Some(n) : n \in RetryCounts}, retryDelay : {None, Some(5)}]

HttpInit == EnhIdle /\ HttpConstructed /\ HttpIdle /\ ApiIdle /\ OthersIdle

HttpNext ==
    \/ \E config \in RequestConfigs : Request(config)
    \/ SendSucceeds
    \/ SendFails
    \/ DelayElapses

\* one request on a constructed HttpClient
HttpSpec == HttpInit /\ [][HttpNext]_vars

-----------------------------------------------------------------------------
(* TwitterClient.getTweets against its transport *)

\* request.tweetIds.length > 100
ExceedsCapInclusive(ids) == Len(ids) >= MaxIdsPerRequest

ExceedsCap(ids) == Len(ids) > MaxIdsPerRequest

\* the id lists getTweets is called with: short ones, and lists at and over the cap
LongIdList(n) == [k \in 1..n |-> <<"2">>]
TweetIdLists ==
    SeqsUpTo(TwitterIds, MaxMentions)
        \cup {LongIdList(MaxIdsPerRequest), LongIdList(MaxIdsPerRequest + 1)}

\* the errors section of a response body
ErrorLists ==
    {None, Some(<<>>),
     Some(<<[title |-> "Not Found Error"]>>),
     Some(<<[title |-> "Not Found Error"], [title |-> "Authorization Error"]>>)}

\* the bodies the transport can answer a lookup of batch with
LookupBodies(batch) ==
    {[data |-> r.data, includes |-> r.includes, errors |-> er] :
        r \in LookupResponses(batch), er \in ErrorLists}

PendingLookup(ids) == [path |-> "/tweets", ids |-> ids, answer |-> None]

Answered(log, out) == [log EXCEPT ![Len(log)].answer = Some(out)]

\* getTweets(request) up to its await
GetTweetsCalled(ids) ==
    /\ trequest' = ids
    /\ IF Len(ids) = 0
       THEN /\ tpc' = "returned"
            /\ tresult' = Some([ok |-> TRUE, value |-> [data |-> <<>>, includes |-> None]])
            /\ transport' = transport
       ELSE IF ExceedsCap(ids)
       THEN /\ tpc' = "thrown"
            /\ tresult' = Some([ok |-> FALSE,
                                value |-> TwitterApiError(
                                    <<"Cannot fetch more than 100 tweets at once">>)])
            /\ transport' = transport
       ELSE /\ tpc' = "awaiting"
            /\ tresult' = None
            /\ transport' = Append(transport, PendingLookup(ids))

\* the variant under which a body that lists errors is returned as it is
LookupResolvesReturningBody(body) ==
    /\ tpc = "awaiting"
    /\ transport' = Answered(transport, [ok |-> TRUE, value |-> body])
    /\ tpc' = "returned"
    /\ tresult' = Some([ok |-> TRUE, value |-> body])
    /\ UNCHANGED trequest

\* this.httpClient.get resolves with body
LookupResolvesWith(body) ==
    /\ tpc = "awaiting"
    /\ transport' = Answered(transport, [ok |-> TRUE, value |-> body])
    /\ IF HasErrors(body)
       THEN /\ tpc' = "thrown"
            /\ tresult' = Some([ok |-> FALSE,
                                value |-> CatchInGetTweets(BodyErrorsFailure(Val(body.errors)))])
       ELSE /\ tpc' = "returned"
            /\ tresult' = Some([ok |-> TRUE, value |-> body])
    /\ UNCHANGED trequest

\* this.httpClient.get rejects with error
LookupRejectsWith(error) ==
    /\ tpc = "awaiting"
    /\ transport' = Answered(transport, [ok |-> FALSE, value |-> error])
    /\ tpc' = "thrown"
    /\ tresult' = Some([ok |-> FALSE, value |-> CatchInGetTweets(error)])
    /\ UNCHANGED trequest

\* what the transport rejects a lookup with: the errors HttpClient.request raises
TransportErrors == {r.error : r \in RequestRejections}

GetTweetsCall ==
    /\ tpc = "idle"
    /\ \E ids \in TweetIdLists : GetTweetsCalled(ids)
    /\ UNCHANGED <<enhVars, httpVars, apiVars, metricVars, sdkVars, pagVars>>

LookupResolves ==
    /\ \E body \in LookupBodies(trequest) : LookupResolvesWith(body)
    /\ UNCHANGED <<enhVars, httpVars, apiVars, metricVars, sdkVars, pagVars>>

LookupRejects ==
    /\ \E error \in TransportErrors : LookupRejectsWith(error)
    /\ UNCHANGED <<enhVars, httpVars, apiVars, metricVars, sdkVars, pagVars>>

TwInit ==
    /\ EnhIdle
    /\ HttpIdle
    /\ httpOptions = [retries |-> None, retryDelay |-> None]
    /\ ApiIdle
    /\ OthersIdle

TwNext ==
    \/ GetTweetsCall
    \/ LookupResolves
    \/ LookupRejects

\* one getTweets call on a constructed TwitterClient
TwSpec == TwInit /\ [][TwNext]_vars

-----------------------------------------------------------------------------
(* ElfaV2Client: parameter validation and request building *)

ValidationError(message) == [name |-> "ValidationError", message |-> message]

\* validateTimeWindowOrFromTo(params): the error it throws, None when it returns
validateTimeWindowOrFromToWindowWins(p) ==
    IF IsSome(p.timeWindow) /\ Val(p.timeWindow) # ""
    THEN None
    ELSE IF ~IsSome(p.from) \/ ~IsSome(p.to)
    THEN Some(ValidationError(
            "You must provide either timeWindow or both from and to parameters"))
    ELSE None

validateTimeWindowOrFromTo(p) ==
    LET hasTimeWindow == IsSome(p.timeWindow) /\ Val(p.timeWindow) # ""
        hasFrom == IsSome(p.from)
        hasTo == IsSome(p.to)
    IN IF (hasFrom /\ ~hasTo) \/ (~hasFrom /\ hasTo)
       THEN Some(ValidationError(
                "When using from/to parameters, both from and to must be provided"))
       ELSE IF ~hasTimeWindow /\ (~hasFrom \/ ~hasTo)
       THEN Some(ValidationError(
                "You must provide either timeWindow or both from and to parameters"))
       ELSE None

\* if (params.x) / if (params.x !== undefined) searchParams.append(...)
AppendString(key, o) == IF IsSome(o) /\ Val(o) # "" THEN <<<<key, Val(o)>>>> ELSE <<>>
AppendNumber(key, o) == IF IsSome(o) THEN <<<<key, NumberToString(Val(o))>>>> ELSE <<>>

StringTruthy(o) == IsSome(o) /\ Val(o) # ""

TimeParams(p) ==
    AppendString("timeWindow", p.timeWindow) \o AppendNumber("from", p.from)
        \o AppendNumber("to", p.to)

\* the check an endpoint method would make if every one validated the time window
EndpointValidationTimeChecked(ep, p) == validateTimeWindowOrFromTo(p)

\* the check each endpoint method makes before building its request
EndpointValidation(ep, p) ==
    CASE ep \in {"getTrendingTokens", "getTrendingCAsTwitter", "getTrendingCAsTelegram"} ->
            validateTimeWindowOrFromTo(p)
      [] ep = "getKeywordMentions" ->
            IF ~StringTruthy(p.keywords) /\ ~StringTruthy(p.accountName)
            THEN Some(ValidationError("Either keywords or accountName must be provided"))
            ELSE None
      [] ep = "getTokenNews" -> None
      [] ep \in {"getTopMentions", "getV1TopMentions"} ->
            IF ~StringTruthy(p.ticker)
            THEN Some(ValidationError("Ticker is required")) ELSE None
      [] ep = "getEventSummary" ->
            IF ~StringTruthy(p.keywords)
            THEN Some(ValidationError("Keywords are required")) ELSE None
      [] ep = "getMentionsByKeywords" ->
            IF ~StringTruthy(p.keywords)
            THEN Some(ValidationError("Keywords are required"))
            ELSE IF p.from = None \/ p.to = None
            THEN Some(ValidationError("Both from and to timestamps are required"))
            ELSE None

EndpointPath(ep) ==
    CASE ep = "getTrendingTokens" -> "/v2/aggregations/trending-tokens"
      [] ep = "getTrendingCAsTwitter" -> "/v2/aggregations/trending-cas/twitter"
      [] ep = "getTrendingCAsTelegram" -> "/v2/aggregations/trending-cas/telegram"
      [] ep = "getKeywordMentions" -> "/v2/data/keyword-mentions"
      [] ep = "getTokenNews" -> "/v2/data/token-news"
      [] ep \in {"getTopMentions", "getV1TopMentions"} -> "/v2/data/top-mentions"
      [] ep = "getEventSummary" -> "/v2/data/event-summary"

\* the query each endpoint method builds from the parameters the model varies
EndpointQuery(ep, p) ==
    CASE ep = "getKeywordMentions" ->
            AppendString("keywords", p.keywords) \o AppendString("accountName", p.accountName)
                \o TimeParams(p)
      [] ep \in {"getTopMentions", "getV1TopMentions"} ->
            <<<<"ticker", Val(p.ticker)>>>> \o TimeParams(p)
      [] ep = "getEventSummary" ->
            <<<<"keywords", Val(p.keywords)>>>> \o AppendNumber("from", p.from)
                \o AppendNumber("to", p.to) \o AppendString("timeWindow", p.timeWindow)
      [] OTHER -> TimeParams(p)

\* an endpoint method: validation, then the request handed to httpClient.get
CallEndpoint(ep, p) ==
    /\ apc = "idle"
    /\ endpoint' = ep
    /\ params' = Some(p)
    /\ LET invalid == EndpointValidation(ep, p)
       IN IF IsSome(invalid)
          THEN /\ apc' = "thrown"
               /\ aerror' = invalid
               /\ requests' = requests
          ELSE /\ apc' = "returned"
               /\ aerror' = None
               /\ requests' = Append(requests, [method |-> "GET", path |-> EndpointPath(ep),
                                                query |-> EndpointQuery(ep, p)])
    /\ UNCHANGED <<enhVars, httpVars, twVars, metricVars, sdkVars, pagVars>>

ParamValues ==
    [timeWindow : {None, Some(""), Some("24h")},
     from : {None, Some(0), Some(1000)},
     to : {None, Some(0), Some(2000)},
     keywords : {None, Some("btc")},
     accountName : {None, Some("elfa")},
     ticker : {None, Some("BTC")}]

getTrendingTokens == \E p \in ParamValues : CallEndpoint("getTrendingTokens", p)
getTrendingCAsTwitter == \E p \in ParamValues : CallEndpoint("getTrendingCAsTwitter", p)
getTrendingCAsTelegram == \E p \in ParamValues : CallEndpoint("getTrendingCAsTelegram", p)
getKeywordMentions == \E p \in ParamValues : CallEndpoint("getKeywordMentions", p)
getTokenNews == \E p \in ParamValues : CallEndpoint("getTokenNews", p)
getTopMentions == \E p \in ParamValues : CallEndpoint("getTopMentions", p)
getV1TopMentions == \E p \in ParamValues : CallEndpoint("getV1TopMentions", p)
getEventSummary == \E p \in ParamValues : CallEndpoint("getEventSummary", p)

ApiInit ==
    /\ EnhIdle
    /\ HttpIdle
    /\ httpOptions = [retries |-> None, retryDelay |-> None]
    /\ ApiIdle
    /\ OthersIdle

ApiNext ==
    \/ getTrendingTokens
    \/ getTrendingCAsTwitter
    \/ getTrendingCAsTelegram
    \/ getKeywordMentions
    \/ getTokenNews
    \/ getTopMentions
    \/ getV1TopMentions
    \/ getEventSummary

\* one endpoint call on a constructed ElfaV2Client
ApiSpec == ApiInit /\ [][ApiNext]_vars

-----------------------------------------------------------------------------
(* ResponseEnhancer: the specification *)

EnhanceCall ==
    /\ pc = "idle"
    /\ \E o \in Ops : \E ms \in SeqsUpTo(MentionsOf(o), MaxMentions) :
         \E opts \in OptionValues : Enhance(o, ms, opts)
    /\ UNCHANGED <<httpVars, apiVars, twVars, metricVars, sdkVars, pagVars>>

GetTweetsResolves ==
    FetchResolves /\ UNCHANGED <<httpVars, apiVars, twVars, metricVars, sdkVars, pagVars>>

GetTweetsRejects ==
    FetchRejects /\ UNCHANGED <<httpVars, apiVars, twVars, metricVars, sdkVars, pagVars>>

Init ==
    /\ EnhInit
    /\ HttpIdle
    /\ httpOptions = [retries |-> None, retryDelay |-> None]
    /\ ApiIdle
    /\ OthersIdle

Next ==
    \/ EnhanceCall
    \/ GetTweetsResolves
    \/ GetTweetsRejects

\* one enhance invocation on a constructed ResponseEnhancer
Spec == Init /\ [][Next]_vars

-----------------------------------------------------------------------------
(* ResponseEnhancer: the specification with every batch size a caller can pass *)

\* the most getTweets calls of one invocation the model follows; a loop whose
\* index advances makes at most one call per id and stays below it
MaxLookups == 4

TermOptionValues ==
    [includeContent : {Some(TRUE)},
     fallbackToV2 : {None, Some(FALSE)},
     batchSize : {None, Some(1), Some(-1)}]

TermEnhanceCall ==
    /\ pc = "idle"
    /\ \E o \in Ops : \E ms \in SeqsUpTo(MentionsOf(o), MaxMentions) :
         \E opts \in TermOptionValues : Enhance(o, ms, opts)
    /\ UNCHANGED <<httpVars, apiVars, twVars, metricVars, sdkVars, pagVars>>

TermGetTweetsResolves == Len(calls) < MaxLookups /\ GetTweetsResolves

TermGetTweetsRejects == Len(calls) < MaxLookups /\ GetTweetsRejects

TermNext ==
    \/ TermEnhanceCall
    \/ TermGetTweetsResolves
    \/ TermGetTweetsRejects

\* one enhance invocation in which every getTweets call returns or raises
TermSpec ==
    Init /\ [][TermNext]_vars /\ WF_vars(TermGetTweetsResolves \/ TermGetTweetsRejects)

-----------------------------------------------------------------------------
(* ResponseEnhancer.calculateEnhancedMetrics on its own *)

\* tweets with and without public metrics, with impressions undefined, 0 and positive
MetricTweets ==
    {[id |-> <<"1">>, text |-> "text of 1", author_id |-> "u1", public_metrics |-> pm] :
        pm \in {None} \cup
               {Some([like_count |-> l, retweet_count |-> r, reply_count |-> rp,
                      quote_count |-> q, impression_count |-> im]) :
                    l \in {0, 1, 20}, r \in {0, 10}, rp \in {0, 5}, q \in {0, 2},
                    im \in {None, Some(0), Some(1), Some(1000)}}}

MetricUsers ==
    {None, Some(User1),
     Some([id |-> "u1", verified |-> None, verified_type |-> None, public_metrics |-> None])}

CalculateMetrics ==
    /\ mmetrics = None
    /\ mmetrics' = Some(calculateEnhancedMetrics(mtweet, muser))
    /\ UNCHANGED <<mtweet, muser>>
    /\ UNCHANGED <<enhVars, httpVars, apiVars, twVars, sdkVars, pagVars>>

MetricsInit ==
    /\ mtweet \in MetricTweets
    /\ muser \in MetricUsers
    /\ mmetrics = None
    /\ EnhIdle
    /\ HttpIdle
    /\ httpOptions = [retries |-> None, retryDelay |-> None]
    /\ ApiIdle
    /\ TwIdle
    /\ SdkIdle
    /\ PagIdle

MetricsNext == CalculateMetrics

\* calculateEnhancedMetrics applied to one tweet and user
MetricsSpec == MetricsInit /\ [][MetricsNext]_vars

-----------------------------------------------------------------------------
(* ResponseEnhancer on a TwitterClient: each getTweets call of the enhancer *)
(* runs TwitterClient.getTweets against the transport                      *)

\* the enhancer's next getTweets call, if its step ended in one
EngineNextLookup ==
    IF pc' = "awaiting"
    THEN GetTweetsCalled(calls'[Len(calls')].ids)
    ELSE UNCHANGED twVars

\* the options of an enhance call that reaches the Twitter API
EngineOptionValues == {o \in OptionValues : o.includeContent = Some(TRUE)}

\* one error of each class the transport raises
EngineTransportErrors ==
    {handleResponseError([response |-> Some([status |-> st, data |-> [kind |-> "none"],
                                             headers |-> NoHeaders]),
                          request |-> TRUE, message |-> "Request failed"]) :
        st \in {401, 429, 500}}
    \cup {handleResponseError([response |-> None, request |-> TRUE, message |-> "timeout"])}

EngineEnhanceCall ==
    /\ pc = "idle"
    /\ \E o \in Ops : \E ms \in SeqsUpTo(MentionsOf(o), MaxMentions) :
         \E opts \in EngineOptionValues : Enhance(o, ms, opts)
    /\ EngineNextLookup
    /\ UNCHANGED <<httpVars, apiVars, metricVars, sdkVars, pagVars>>

EngineLookupResolves ==
    /\ pc = "awaiting"
    /\ \E body \in LookupBodies(trequest) : LookupResolvesWith(body)
    /\ UNCHANGED <<enhVars, httpVars, apiVars, metricVars, sdkVars, pagVars>>

EngineLookupRejects ==
    /\ pc = "awaiting"
    /\ \E error \in EngineTransportErrors : LookupRejectsWith(error)
    /\ UNCHANGED <<enhVars, httpVars, apiVars, metricVars, sdkVars, pagVars>>

\* getTweets has settled: the enhancer's await continues with its outcome
EngineGetTweetsSettles ==
    /\ pc = "awaiting"
    /\ tpc \in {"returned", "thrown"}
    /\ IF Val(tresult).ok
       THEN FetchResolvesWith(Val(tresult))
       ELSE FetchRejectsWith(Val(tresult))
    /\ EngineNextLookup
    /\ UNCHANGED <<httpVars, apiVars, metricVars, sdkVars, pagVars>>

EngineInit ==
    /\ EnhInit
    /\ twitterClient
    /\ HttpIdle
    /\ httpOptions = [retries |-> None, retryDelay |-> None]
    /\ ApiIdle
    /\ OthersIdle

EngineNext ==
    \/ EngineEnhanceCall
    \/ EngineLookupResolves
    \/ EngineLookupRejects
    \/ EngineGetTweetsSettles

\* one enhance invocation on an enhancer that has a TwitterClient
EngineSpec == EngineInit /\ [][EngineNext]_vars

-----------------------------------------------------------------------------
(* ElfaSDK: construction and options *)

\* maxBatchSize of the constructor's defaults
DefaultMaxBatchSize == 100

\* enhancementTimeout of the constructor's defaults
DefaultEnhancementTimeout == 30000

\* validateOptions(options): the error it throws, if any
validateOptions(o) ==
    IF o.elfaApiKey = ""
    THEN Some(ValidationError("elfaApiKey is required"))
    ELSE IF IsSome(o.maxBatchSize)
            /\ (Val(o.maxBatchSize) < 1 \/ Val(o.maxBatchSize) > 100)
    THEN Some(ValidationError("maxBatchSize must be between 1 and 100"))
    ELSE IF IsSome(o.enhancementTimeout) /\ Val(o.enhancementTimeout) < 1000
    THEN Some(ValidationError("enhancementTimeout must be at least 1000ms"))
    ELSE None

\* the options a caller hands to the constructor
ConstructorOptionValues ==
    [elfaApiKey : {"", "ek"},
     twitterApiKey : {None, Some("tk")},
     fetchRawTweets : {None, Some(TRUE)},
     strictMode : {None},
     maxBatchSize : {None, Some(50), Some(101)},
     enhancementTimeout : {None, Some(999)}]

\* this.options = { ...defaults, ...options }
Defaulted(o) ==
    [elfaApiKey |-> o.elfaApiKey,
     twitterApiKey |-> o.twitterApiKey,
     fetchRawTweets |-> Coalesce(o.fetchRawTweets, FALSE),
     strictMode |-> Coalesce(o.strictMode, FALSE),
     maxBatchSize |-> Coalesce(o.maxBatchSize, DefaultMaxBatchSize),
     enhancementTimeout |-> Coalesce(o.enhancementTimeout, DefaultEnhancementTimeout)]

\* if (this.options.twitterApiKey) this.twitterClient = new TwitterClient(...)
HasTwitterClient(o) == IsSome(o.twitterApiKey) /\ Val(o.twitterApiKey) # ""

\* new ElfaSDK(o) returned: validateOptions did not throw
Constructed(o) ==
    /\ validateOptions(o) = None
    /\ constructorOptions = o
    /\ sdkOptions = Defaulted(o)
    /\ twitterClient = HasTwitterClient(Defaulted(o))
    /\ batchSize = Defaulted(o).maxBatchSize

getOptions == sdkOptions

\* { ...this.options, ...newOptions }
Merged(old, new) ==
    [elfaApiKey |-> Coalesce(new.elfaApiKey, old.elfaApiKey),
     twitterApiKey |-> IF IsSome(new.twitterApiKey) THEN new.twitterApiKey
                       ELSE old.twitterApiKey,
     fetchRawTweets |-> Coalesce(new.fetchRawTweets, old.fetchRawTweets),
     strictMode |-> Coalesce(new.strictMode, old.strictMode),
     maxBatchSize |-> Coalesce(new.maxBatchSize, old.maxBatchSize),
     enhancementTimeout |-> Coalesce(new.enhancementTimeout, old.enhancementTimeout)]

\* updateOptions(newOptions)
updateOptions(newOptions) ==
    /\ IF StringTruthy(newOptions.elfaApiKey)
       THEN /\ updateError' =
                   Some(ValidationError("Cannot update elfaApiKey after initialization"))
            /\ sdkOptions' = sdkOptions
       ELSE IF StringTruthy(newOptions.twitterApiKey)
       THEN /\ updateError' =
                   Some(ValidationError("Cannot update twitterApiKey after initialization"))
            /\ sdkOptions' = sdkOptions
       ELSE /\ updateError' = None
            /\ sdkOptions' = Merged(sdkOptions, newOptions)
    /\ UNCHANGED <<constructorOptions, spc, sdkOp, sdkParams, primary, enhancerInvoked,
                   sdkResult, probes>>
    /\ UNCHANGED <<enhVars, httpVars, apiVars, twVars, metricVars, pagVars>>

\* the arguments of updateOptions that name no credential
SettingUpdates ==
    [elfaApiKey : {None},
     twitterApiKey : {None},
     fetchRawTweets : {None, Some(TRUE), Some(FALSE)},
     strictMode : {None, Some(TRUE), Some(FALSE)},
     maxBatchSize : {None, Some(101)},
     enhancementTimeout : {None}]

\* the arguments of updateOptions
UpdateValues ==
    [elfaApiKey : {None, Some("new-key"), Some("")},
     twitterApiKey : {None, Some("new-key"), Some("")},
     fetchRawTweets : {None, Some(TRUE), Some(FALSE)},
     strictMode : {None, Some(TRUE), Some(FALSE)},
     maxBatchSize : {None, Some(101)},
     enhancementTimeout : {None, Some(999)}]

SdkCallIdle ==
    /\ spc = "idle"
    /\ sdkOp = "none"
    /\ sdkParams = None
    /\ primary = None
    /\ enhancerInvoked = FALSE
    /\ sdkResult = None
    /\ probes = <<>>
    /\ updateError = None

SdkInit ==
    /\ \E o \in ConstructorOptionValues : Constructed(o)
    /\ pc = "idle"
    /\ op = "none"
    /\ mentions = <<>>
    /\ options = [includeContent |-> None, fallbackToV2 |-> None, batchSize |-> None]
    /\ tweetIds = <<>>
    /\ i = 0
    /\ allTweets = <<>>
    /\ allUsers = <<>>
    /\ calls = <<>>
    /\ result = None
    /\ thrown = None
    /\ SdkCallIdle
    /\ HttpIdle
    /\ httpOptions = [retries |-> None, retryDelay |-> None]
    /\ ApiIdle
    /\ TwIdle
    /\ MetricsIdle
    /\ PagIdle

UpdateOptionsCall ==
    /\ spc = "idle"
    /\ \E newOptions \in UpdateValues : updateOptions(newOptions)

SdkOptionsNext == UpdateOptionsCall

\* a constructed ElfaSDK under updateOptions calls
SdkOptionsSpec == SdkInit /\ [][SdkOptionsNext]_vars

-----------------------------------------------------------------------------
(* ElfaSDK: the enhancement-eligible operations and testConnection *)

EnhancedOps == {"getKeywordMentions", "getTokenNews", "getMentionsByKeywords"}

\* the enhance operation an SDK operation hands its records to
EnhancerOp(o) == IF o = "getMentionsByKeywords" THEN "simple" ELSE "processed"

\* shouldEnhanceResponse(params), reading the instance default only
shouldEnhanceResponseInstanceOnly(p) ==
    sdkOptions.fetchRawTweets /\ twitterClient

\* shouldEnhanceResponse(params)
shouldEnhanceResponse(p) ==
    LET fetchRawTweets == Coalesce(p.fetchRawTweets, sdkOptions.fetchRawTweets)
    IN fetchRawTweets /\ twitterClient

\* buildEnhancementOptions(params), with fallback always on
buildEnhancementOptionsAlwaysFallback(p) ==
    LET eo == IF IsSome(p.enhancementOptions) THEN Val(p.enhancementOptions)
              ELSE [includeContent |-> None, fallbackToV2 |-> None, batchSize |-> None]
    IN [includeContent |-> IF IsSome(eo.includeContent) THEN eo.includeContent ELSE Some(TRUE),
        fallbackToV2 |-> IF IsSome(eo.fallbackToV2) THEN eo.fallbackToV2 ELSE Some(TRUE),
        batchSize |-> IF IsSome(eo.batchSize) THEN eo.batchSize
                      ELSE Some(sdkOptions.maxBatchSize)]

\* buildEnhancementOptions(params): the defaults, then ...params.enhancementOptions
buildEnhancementOptions(p) ==
    LET eo == IF IsSome(p.enhancementOptions) THEN Val(p.enhancementOptions)
              ELSE [includeContent |-> None, fallbackToV2 |-> None, batchSize |-> None]
    IN [includeContent |-> IF IsSome(eo.includeContent) THEN eo.includeContent ELSE Some(TRUE),
        fallbackToV2 |-> IF IsSome(eo.fallbackToV2) THEN eo.fallbackToV2
                         ELSE Some(~sdkOptions.strictMode),
        batchSize |-> IF IsSome(eo.batchSize) THEN eo.batchSize
                      ELSE Some(sdkOptions.maxBatchSize)]

\* { ...response, data: enhancementResult.data, enhancement_info: ... }
EnhancedResponse(response, enhancementResult) ==
    [metadata |-> response.metadata,
     data |-> enhancementResult.data,
     enhancement_info |-> enhancementResult.enhancement_info]

\* the per-call enhancementOptions the model tries
NoEnhancementOptions == [includeContent |-> None, fallbackToV2 |-> None, batchSize |-> None]
EnhancementOptionValues ==
    {None,
     Some([NoEnhancementOptions EXCEPT !.fallbackToV2 = Some(TRUE)]),
     Some([NoEnhancementOptions EXCEPT !.fallbackToV2 = Some(FALSE)]),
     Some([NoEnhancementOptions EXCEPT !.batchSize = Some(50)]),
     Some([NoEnhancementOptions EXCEPT !.batchSize = Some(101)]),
     Some([NoEnhancementOptions EXCEPT !.includeContent = Some(FALSE)])}

\* the parameters of an operation: the query and the RequestOptions
SdkParamValues ==
    [query : {[timeWindow |-> None, from |-> None, to |-> None, keywords |-> None,
               accountName |-> None, ticker |-> None],
              [timeWindow |-> None, from |-> Some(1000), to |-> Some(2000),
               keywords |-> Some("btc"), accountName |-> None, ticker |-> None]},
     fetchRawTweets : {None, Some(TRUE), Some(FALSE)},
     enhancementOptions : EnhancementOptionValues]

\* the records of a primary response: short lists, and one with more records than
\* a tweet lookup takes ids
SdkMentionsOf(o) ==
    IF o = "simple"
    THEN {[twitter_id |-> t, content |-> Some("elfa text")] : t \in {<<"1">>, <<"2">>}}
    ELSE {[link |-> l, content |-> None] : l \in {<<"x", "/status/", "1">>, <<"x", "1">>}}

LongResponse(o) ==
    IF o = "simple"
    THEN [k \in 1..(MaxIdsPerRequest + 1) |->
            [twitter_id |-> <<"2">>, content |-> Some("elfa text")]]
    ELSE [k \in 1..(MaxIdsPerRequest + 1) |->
            [link |-> <<"x", "/status/", "2">>, content |-> None]]

PrimaryResponses(o) ==
    {[data |-> ms, metadata |-> "metadata"] :
        ms \in SeqsUpTo(SdkMentionsOf(EnhancerOp(o)), MaxMentions)
                  \cup {LongResponse(EnhancerOp(o))}}

\* an operation up to its first await: this.elfaClient.<operation>(params)
SdkCall(o, p) ==
    /\ spc = "idle"
    /\ sdkOp' = o
    /\ sdkParams' = Some(p)
    /\ LET invalid == EndpointValidation(o, p.query)
       IN IF IsSome(invalid)
          THEN /\ spc' = "thrown"
               /\ primary' = Some([ok |-> FALSE, value |-> Val(invalid)])
               /\ sdkResult' = Some([ok |-> FALSE, value |-> Val(invalid)])
          ELSE /\ spc' = "primary"
               /\ primary' = None
               /\ sdkResult' = None
    /\ UNCHANGED <<constructorOptions, sdkOptions, enhancerInvoked, probes, updateError>>
    /\ UNCHANGED <<enhVars, httpVars, apiVars, twVars, metricVars, pagVars>>

\* the enhancer's step ended: the rest of the operation, if the enhancer is done
SdkAfterEnhancer(response) ==
    IF pc' = "returned"
    THEN /\ spc' = "returned"
         /\ sdkResult' = Some([ok |-> TRUE,
                               value |-> EnhancedResponse(response, Val(result'))])
    ELSE IF pc' = "thrown"
    THEN /\ spc' = "thrown"
         /\ sdkResult' = Some([ok |-> FALSE, value |-> Val(thrown')])
    ELSE /\ spc' = "enhancing"
         /\ sdkResult' = None

\* the variant under which a failed primary fetch yields an empty response
PrimaryRejectsSwallowed(error) ==
    /\ spc = "primary"
    /\ primary' = Some([ok |-> FALSE, value |-> error])
    /\ spc' = "returned"
    /\ sdkResult' = Some([ok |-> TRUE, value |-> [data |-> <<>>, metadata |-> "metadata"]])
    /\ UNCHANGED <<constructorOptions, sdkOptions, sdkOp, sdkParams, enhancerInvoked, probes,
                   updateError>>
    /\ UNCHANGED <<enhVars, httpVars, apiVars, twVars, metricVars, pagVars>>

\* the primary fetch rejects: the operation raises the same error
PrimaryRejectsWith(error) ==
    /\ spc = "primary"
    /\ primary' = Some([ok |-> FALSE, value |-> error])
    /\ spc' = "thrown"
    /\ sdkResult' = Some([ok |-> FALSE, value |-> error])
    /\ UNCHANGED <<constructorOptions, sdkOptions, sdkOp, sdkParams, enhancerInvoked, probes,
                   updateError>>
    /\ UNCHANGED <<enhVars, httpVars, apiVars, twVars, metricVars, pagVars>>

\* the primary fetch resolves: shouldEnhanceResponse, and the enhancer up to its
\* first await
PrimaryResolvesWith(response) ==
    /\ spc = "primary"
    /\ primary' = Some([ok |-> TRUE, value |-> response])
    /\ IF shouldEnhanceResponse(Val(sdkParams))
       THEN /\ enhancerInvoked' = TRUE
            /\ Enhance(EnhancerOp(sdkOp), response.data,
                       buildEnhancementOptions(Val(sdkParams)))
            /\ SdkAfterEnhancer(response)
       ELSE /\ enhancerInvoked' = FALSE
            /\ spc' = "returned"
            /\ sdkResult' = Some([ok |-> TRUE, value |-> response])
            /\ UNCHANGED enhVars
    /\ UNCHANGED <<constructorOptions, sdkOptions, sdkOp, sdkParams, probes, updateError>>
    /\ UNCHANGED <<httpVars, apiVars, twVars, metricVars, pagVars>>

SdkOperationCall ==
    /\ spc = "idle"
    /\ \E o \in EnhancedOps : \E p \in SdkParamValues : SdkCall(o, p)

PrimaryResolves ==
    /\ spc = "primary"
    /\ \E response \in PrimaryResponses(sdkOp) : PrimaryResolvesWith(response)

PrimaryRejects ==
    /\ spc = "primary"
    /\ \E error \in EngineTransportErrors : PrimaryRejectsWith(error)

\* a getTweets call of the enhancer settles while the operation awaits the enhancer
SdkGetTweetsResolves ==
    /\ spc = "enhancing"
    /\ FetchResolves
    /\ SdkAfterEnhancer(Val(primary).value)
    /\ UNCHANGED <<constructorOptions, sdkOptions, sdkOp, sdkParams, primary, enhancerInvoked,
                   probes, updateError>>
    /\ UNCHANGED <<httpVars, apiVars, twVars, metricVars, pagVars>>

SdkGetTweetsRejects ==
    /\ spc = "enhancing"
    /\ FetchRejects
    /\ SdkAfterEnhancer(Val(primary).value)
    /\ UNCHANGED <<constructorOptions, sdkOptions, sdkOp, sdkParams, primary, enhancerInvoked,
                   probes, updateError>>
    /\ UNCHANGED <<httpVars, apiVars, twVars, metricVars, pagVars>>

\* updateOptions is synchronous; the operation in flight reads this.options when its
\* primary fetch has resolved
UpdateSettingsCall ==
    /\ spc \in {"idle", "primary"}
    /\ \E newOptions \in SettingUpdates : updateOptions(newOptions)

\* what this.httpClient.get answers a probe with
PingOutcomes ==
    {[ok |-> TRUE, value |-> [success |-> b]] : b \in BOOLEAN}
        \cup {[ok |-> FALSE, value |-> e] : e \in EngineTransportErrors}

TwitterProbeOutcomes ==
    {[ok |-> TRUE, value |-> body] : body \in {"", "body"}}
        \cup {[ok |-> FALSE, value |-> e] : e \in EngineTransportErrors}

\* ElfaV2Client.testConnection: response.success === true, false in its catch block
elfaTestConnection(out) == IF out.ok THEN out.value.success = TRUE ELSE FALSE

\* TwitterClient.testConnection: !!response, false in its catch block
twitterTestConnection(out) == IF out.ok THEN out.value # "" ELSE FALSE

\* the test before the Twitter leg, made to depend on the Elfa leg
ProbesTwitterIfElfaUp(elfaUp) == twitterClient /\ elfaUp

\* if (this.twitterClient)
ProbesTwitter(elfaUp) == twitterClient

PendingProbe(leg) == [leg |-> leg, answer |-> None]

\* testConnection up to its first await; sdkResult holds the results object
TestConnectionCall ==
    /\ spc = "idle"
    /\ sdkOp' = "testConnection"
    /\ sdkParams' = None
    /\ spc' = "probingElfa"
    /\ probes' = <<PendingProbe("elfa")>>
    /\ sdkResult' = Some([ok |-> TRUE, value |-> [elfa |-> FALSE, twitter |-> None]])
    /\ UNCHANGED <<constructorOptions, sdkOptions, primary, enhancerInvoked, updateError>>
    /\ UNCHANGED <<enhVars, httpVars, apiVars, twVars, metricVars, pagVars>>

\* this.elfaClient.testConnection() settles
ElfaProbeSettles ==
    /\ spc = "probingElfa"
    /\ \E out \in PingOutcomes :
        LET up == elfaTestConnection(out)
        IN /\ sdkResult' = Some([ok |-> TRUE, value |-> [elfa |-> up, twitter |-> None]])
           /\ IF ProbesTwitter(up)
              THEN /\ probes' = Append(Answered(probes, out), PendingProbe("twitter"))
                   /\ spc' = "probingTwitter"
              ELSE /\ probes' = Answered(probes, out)
                   /\ spc' = "returned"
    /\ UNCHANGED <<constructorOptions, sdkOptions, sdkOp, sdkParams, primary, enhancerInvoked,
                   updateError>>
    /\ UNCHANGED <<enhVars, httpVars, apiVars, twVars, metricVars, pagVars>>

\* this.twitterClient.testConnection() settles
TwitterProbeSettles ==
    /\ spc = "probingTwitter"
    /\ \E out \in TwitterProbeOutcomes :
        /\ sdkResult' = Some([ok |-> TRUE,
                              value |-> [Val(sdkResult).value EXCEPT
                                            !.twitter = Some(twitterTestConnection(out))]])
        /\ probes' = Answered(probes, out)
        /\ spc' = "returned"
    /\ UNCHANGED <<constructorOptions, sdkOptions, sdkOp, sdkParams, primary, enhancerInvoked,
                   updateError>>
    /\ UNCHANGED <<enhVars, httpVars, apiVars, twVars, metricVars, pagVars>>

SdkNext ==
    \/ SdkOperationCall
    \/ PrimaryResolves
    \/ PrimaryRejects
    \/ SdkGetTweetsResolves
    \/ SdkGetTweetsRejects
    \/ UpdateSettingsCall
    \/ TestConnectionCall
    \/ ElfaProbeSettles
    \/ TwitterProbeSettles

\* one operation on a constructed ElfaSDK, among updateOptions calls
SdkSpec == SdkInit /\ [][SdkNext]_vars

-----------------------------------------------------------------------------
(* PaginationHelper: collectAllPages and collectAllCursor *)

\* the most items a page carries, the largest total a page's metadata reports and
\* the most pages a cursor chain has
MaxPageLen == 2
MaxTotal == 3
MaxCursorPages == 3

\* Math.ceil(a / b) for a >= 0 and b > 0
Ceil(a, b) == (a + b - 1) \div b

\* a || b for numbers: undefined and 0 are falsy
NumberOr(a, b) == IF IsSome(a) /\ Val(a) # 0 THEN Val(a) ELSE b

\* items.slice(0, end)
SliceFromStart(items, end) ==
    IF end >= 0
    THEN SubSeq(items, 1, IF end < Len(items) THEN end ELSE Len(items))
    ELSE SubSeq(items, 1, Len(items) + end)

\* the test of the collectors after each page: maxItems && allItems.length >= maxItems
LimitReached(limit, items) ==
    IsSome(limit) /\ Val(limit) # 0 /\ Len(items) >= Val(limit)

\* the data of the page fetched by the n-th fetchPage call: len items, each distinct
PageData(n, len) == [k \in 1..len |-> <<n, k>>]

\* what fetchPage resolves with for the n-th call of iteratePages
PageResponses(n) ==
    {[data |-> PageData(n, len), metadata |-> [pageSize |-> ps, total |-> t]] :
        len \in 0..MaxPageLen, ps \in 1..2, t \in 0..MaxTotal}

\* what fetchPage resolves with for the n-th call of iterateCursor: the chain of
\* cursors ends after at most MaxCursorPages pages
CursorResponses(n) ==
    {[data |-> PageData(n, len), metadata |-> [cursor |-> c]] :
        len \in 0..MaxPageLen,
        c \in IF n < MaxCursorPages THEN {None, Some(""), Some("next")}
                                    ELSE {None, Some("")}}

MaxItemsValues == {None, Some(0), Some(1), Some(3)}

PageParams == [page : {None, Some(0), Some(1), Some(2)}, pageSize : {None, Some(2)}]

CursorParams == [cursor : {None, Some("start")}]

\* collectAllPages(fetchPage, params, limit) up to the first await of iteratePages
CollectAllPages(initialParams, limit) ==
    /\ ppc = "idle"
    /\ collector' = "collectAllPages"
    /\ maxItems' = limit
    /\ currentPage' = NumberOr(initialParams.page, 1)
    /\ pageSize' = NumberOr(initialParams.pageSize, 20)
    /\ fetched' = <<[params |-> [page |-> currentPage', pageSize |-> pageSize'],
                     response |-> None]>>
    /\ ppc' = "awaiting"
    /\ UNCHANGED <<cursor, allItems, collected>>
    /\ UNCHANGED <<enhVars, httpVars, apiVars, twVars, metricVars, sdkVars>>

\* collectAllCursor(fetchPage, params, limit) up to the first await of iterateCursor
CollectAllCursor(initialParams, limit) ==
    /\ ppc = "idle"
    /\ collector' = "collectAllCursor"
    /\ maxItems' = limit
    /\ cursor' = initialParams.cursor
    /\ fetched' = <<[params |-> [cursor |-> cursor'], response |-> None]>>
    /\ ppc' = "awaiting"
    /\ UNCHANGED <<pageSize, currentPage, allItems, collected>>
    /\ UNCHANGED <<enhVars, httpVars, apiVars, twVars, metricVars, sdkVars>>

\* the pending fetchPage call resolves: the body of the for await loop, and, unless
\* the collector returns, the generator's step to its next fetchPage call
\* (more: the loop of the generator goes on; nextParams: the params of its next call)
PageArrives(response, more, nextParams) ==
    LET items == allItems \o response.data
        log == [fetched EXCEPT ![Len(fetched)].response = Some(response)]
    IN /\ allItems' = items
       /\ IF LimitReached(maxItems, items)
          THEN /\ collected' = Some([ok |-> TRUE,
                                      value |-> SliceFromStart(items, Val(maxItems))])
               /\ ppc' = "returned"
               /\ fetched' = log
          ELSE IF more
          THEN /\ fetched' = Append(log, [params |-> nextParams, response |-> None])
               /\ UNCHANGED <<ppc, collected>>
          ELSE /\ collected' = Some([ok |-> TRUE, value |-> items])
               /\ ppc' = "returned"
               /\ fetched' = log

PageResolves ==
    /\ ppc = "awaiting"
    /\ collector = "collectAllPages"
    /\ \E response \in PageResponses(Len(fetched)) :
         LET totalPages == Ceil(response.metadata.total, response.metadata.pageSize)
             more == ~(currentPage >= totalPages)
         IN /\ PageArrives(response, more, [page |-> currentPage + 1, pageSize |-> pageSize])
            /\ currentPage' = IF ~LimitReached(maxItems, allItems') /\ more
                              THEN currentPage + 1 ELSE currentPage
    /\ UNCHANGED <<collector, maxItems, pageSize, cursor>>
    /\ UNCHANGED <<enhVars, httpVars, apiVars, twVars, metricVars, sdkVars>>

CursorResolves ==
    /\ ppc = "awaiting"
    /\ collector = "collectAllCursor"
    /\ \E response \in CursorResponses(Len(fetched)) :
         LET more == StringTruthy(response.metadata.cursor)
         IN /\ PageArrives(response, more, [cursor |-> response.metadata.cursor])
            /\ cursor' = IF ~LimitReached(maxItems, allItems') /\ more
                         THEN response.metadata.cursor ELSE cursor
    /\ UNCHANGED <<collector, maxItems, pageSize, currentPage>>
    /\ UNCHANGED <<enhVars, httpVars, apiVars, twVars, metricVars, sdkVars>>

\* the pending fetchPage call rejects: the error leaves the generator and the collector
FetchPageRejects ==
    /\ ppc = "awaiting"
    /\ collected' = Some([ok |-> FALSE, value |-> "fetchPage error"])
    /\ ppc' = "thrown"
    /\ UNCHANGED <<collector, maxItems, pageSize, currentPage, cursor, allItems, fetched>>
    /\ UNCHANGED <<enhVars, httpVars, apiVars, twVars, metricVars, sdkVars>>

PagInit ==
    /\ EnhIdle
    /\ HttpIdle
    /\ httpOptions = [retries |-> None, retryDelay |-> None]
    /\ ApiIdle
    /\ OthersIdle

PagNext ==
    \/ \E initialParams \in PageParams, limit \in MaxItemsValues :
            CollectAllPages(initialParams, limit)
    \/ \E initialParams \in CursorParams, limit \in MaxItemsValues :
            CollectAllCursor(initialParams, limit)
    \/ PageResolves
    \/ CursorResolves
    \/ FetchPageRejects

\* one call of a collector of PaginationHelper
PagSpec == PagInit /\ [][PagNext]_vars

-----------------------------------------------------------------------------
(* Properties of the enhance operations (checked under Spec) *)

MentionOps == {"processed", "simple", "accountToken"}
UrlOps == {"processed", "accountToken", "topV2"}

Returned == pc = "returned" /\ IsSome(result)
Data == Val(result).data
Info == Val(result).enhancement_info

SomeCallRejected == \E k \in 1..Len(calls) : calls[k].outcome = "rejected"
RejectionError == Val(calls[Len(calls)].error)

\* output record k is input record k tagged 'elfa', with nothing added to it
SourceOnly(k) ==
    /\ Data[k].mention = mentions[k]
    /\ Data[k].data_source = "elfa"
    /\ Data[k].content = mentions[k].content
    /\ Data[k].enhanced_metrics = None
    /\ Data[k].twitter_data = None

\* C1: in the three mention operations, when a getTweets call of any chunk raises:
\* with fallbackToV2 true the operation returns, the result has the input's length,
\* every record is the input record tagged 'elfa' with nothing added, total_enhanced
\* is 0, failed_enhancements is the number of input records, twitter_api_used is
\* false and errors holds the caught error's message; with fallbackToV2 false an
\* EnhancementError is raised instead.
C1_FallbackOnFetchFailure ==
    (op \in MentionOps /\ SomeCallRejected) =>
        /\ options.fallbackToV2 = Some(TRUE) =>
            /\ Returned
            /\ thrown = None
            /\ Len(Data) = Len(mentions)
            /\ \A k \in 1..Len(mentions) : SourceOnly(k)
            /\ Info.total_enhanced = 0
            /\ Info.failed_enhancements = Len(mentions)
            /\ Info.twitter_api_used = FALSE
            /\ Info.errors = Some(<<RejectionError.message>>)
        /\ options.fallbackToV2 = Some(FALSE) =>
            /\ pc = "thrown"
            /\ result = None
            /\ IsSome(thrown)
            /\ Val(thrown).name = "EnhancementError"

\* a later chunk failed after an earlier chunk had returned a tweet, and the
\* operation fell back
C1_Witness ==
    /\ op \in MentionOps
    /\ options.fallbackToV2 = Some(TRUE)
    /\ Len(calls) = 2
    /\ calls[1].outcome = "resolved"
    /\ Val(calls[1].response).data # <<>>
    /\ calls[2].outcome = "rejected"
    /\ Returned
    /\ Info.failed_enhancements = 2

\* C2: when the enhancer has no Twitter client, or options.includeContent is false
\* or absent, every enhance operation returns the input records in the same order,
\* each tagged 'elfa' and otherwise unchanged, with total_enhanced = 0,
\* failed_enhancements = 0 and twitter_api_used = false, and calls getTweets never.
C2_NoClientOrNoContent ==
    (pc # "idle" /\ (~twitterClient \/ options.includeContent \in {None, Some(FALSE)})) =>
        /\ Returned
        /\ thrown = None
        /\ calls = <<>>
        /\ Len(Data) = Len(mentions)
        /\ \A k \in 1..Len(mentions) : SourceOnly(k)
        /\ Info.total_enhanced = 0
        /\ Info.failed_enhancements = 0
        /\ Info.twitter_api_used = FALSE
        /\ Info.errors = None

\* a client is configured and the records carry ids, yet includeContent = false
\* returns them untouched
C2_Witness ==
    /\ Returned
    /\ twitterClient
    /\ options.includeContent = Some(FALSE)
    /\ op = "processed"
    /\ Len(mentions) = 2
    /\ mentions[1].link = <<"x", "/status/", "1">>
    /\ calls = <<>>

\* the tweets the resolved calls returned
ReturnedTweets ==
    UNION {{Val(calls[k].response).data[j] : j \in 1..Len(Val(calls[k].response).data)} :
              k \in {c \in 1..Len(calls) : calls[c].outcome = "resolved"}}

FetchSucceeded == Returned /\ Info.twitter_api_used

\* C3: after a successful fetch the result has the input's length and order, and
\* output record k is tagged 'elfa+twitter' exactly when record k's correlation id
\* is the id of a tweet returned by any chunk; then its content is the text of such
\* a tweet and enhanced_metrics and twitter_data (that tweet) are attached, and
\* otherwise it is the input record tagged 'elfa' with nothing added.
C3_MergeByKey ==
    FetchSucceeded =>
        /\ Len(Data) = Len(mentions)
        /\ \A k \in 1..Len(mentions) :
            LET id == CorrelationId(op, mentions[k])
                matches == {t \in ReturnedTweets : IsSome(id) /\ t.id = Val(id)}
            IN /\ Data[k].mention = mentions[k]
               /\ (Data[k].data_source = "elfa+twitter") <=> (matches # {})
               /\ matches # {} =>
                    /\ \E t \in matches :
                        /\ Data[k].content = Some(t.text)
                        /\ IsSome(Data[k].twitter_data)
                        /\ Val(Data[k].twitter_data).tweet = t
                    /\ IsSome(Data[k].enhanced_metrics)
               /\ matches = {} => SourceOnly(k)

\* two records with the same id in different chunks: only the first chunk
\* returned the tweet, and the second record is enhanced from it
C3_Witness ==
    /\ FetchSucceeded
    /\ Len(calls) = 2
    /\ Val(calls[1].response).data # <<>>
    /\ Val(calls[2].response).data = <<>>
    /\ Len(Data) = 2
    /\ Data[2].data_source = "elfa+twitter"
    /\ Data[2].content = Some("text of 1")

\* C4: in every enhance operation, whenever the fetch succeeds, total_enhanced is
\* the number of output records tagged 'elfa+twitter' and failed_enhancements is
\* the number of input records minus total_enhanced.
C4_CountsAddUp ==
    FetchSucceeded =>
        /\ Info.total_enhanced = CountEnhanced(Data)
        /\ Info.failed_enhancements = Len(mentions) - Info.total_enhanced

\* the url field of a record of a link-carrying operation
UrlOf(o, mention) == IF o = "accountToken" THEN mention.originalUrl ELSE mention.link

\* the url contains "/status/" followed by a digit
HasStatusSegment(url) ==
    \E j \in 1..Len(url) : url[j] = StatusToken /\ j < Len(url) /\ IsDigit(url[j + 1])

\* id stands in the url right after a "/status/"
IdFollowsStatus(url, id) ==
    \E j \in 1..Len(url) :
        /\ url[j] = StatusToken
        /\ j + Len(id) <= Len(url)
        /\ SubSeq(url, j + 1, j + Len(id)) = id

IdsPassed(k) == calls[k].ids

\* C5: a record whose link/originalUrl has no '/status/<digits>' segment is tagged
\* 'elfa' in the result and contributes no id to any getTweets call (every id passed
\* stands after a "/status/" in a record that has the segment, and no more ids are
\* passed than there are such records); such records are not reported as an error,
\* and a record that has the segment and whose tweet was returned is still enhanced.
C5_UnextractableRecords ==
    (op \in UrlOps /\ pc # "idle") =>
        LET keyed == {k \in 1..Len(mentions) : HasStatusSegment(UrlOf(op, mentions[k]))}
        IN /\ \A c \in 1..Len(calls) :
                /\ \A j \in 1..Len(IdsPassed(c)) :
                      \E k \in keyed : IdFollowsStatus(UrlOf(op, mentions[k]), IdsPassed(c)[j])
                /\ Len(IdsPassed(c)) <= Cardinality(keyed)
           /\ (keyed = {} /\ twitterClient /\ Truthy(options.includeContent)) =>
                (Returned /\ calls = <<>>)
           /\ (pc = "thrown" \/ (Returned /\ IsSome(Info.errors))) => SomeCallRejected
           /\ Returned =>
                /\ \A k \in 1..Len(mentions) : k \notin keyed => SourceOnly(k)
                /\ FetchSucceeded =>
                     \A k \in keyed :
                        (\E t \in ReturnedTweets : IdFollowsStatus(UrlOf(op, mentions[k]), t.id)
                            /\ t.id = Val(CorrelationId(op, mentions[k])))
                        => Data[k].data_source = "elfa+twitter"

\* a record without the segment stays 'elfa' next to a record that is enhanced
C5_Witness ==
    /\ op \in UrlOps
    /\ FetchSucceeded
    /\ Len(mentions) = 2
    /\ ~HasStatusSegment(UrlOf(op, mentions[1]))
    /\ Data[1].data_source = "elfa"
    /\ Data[2].data_source = "elfa+twitter"
    /\ Info.errors = None

-----------------------------------------------------------------------------
(* Properties of HttpClient.request (checked under HttpSpec) *)

\* the failures that may be sent again: RateLimitError, NetworkError and
\* ElfaApiError with a status of 500-599
RetryableClass(e) ==
    \/ e.name = "RateLimitError"
    \/ e.name = "NetworkError"
    \/ e.name = "ElfaApiError" /\ IsSome(e.statusCode) /\ Val(e.statusCode) \in 500..599

Raised(e) == hpc = "thrown" /\ hresult = Some([ok |-> FALSE, value |-> e])

\* C6: a request is sent again, and a backoff delay waited, only after a failure
\* that is a RateLimitError, a NetworkError or an ElfaApiError with status 500-599;
\* a failure of any other class is raised to the caller at once, with no delay and
\* no further send after it, so that such a first failure means exactly one send.
C6_RetryOnlyRetryable ==
    /\ hpc = "delaying" => (IsSome(lastError) /\ RetryableClass(Val(lastError)))
    /\ (hpc = "sending" /\ attempt > 0) => (IsSome(lastError) /\ RetryableClass(Val(lastError)))
    /\ sends > 1 => (IsSome(lastError) /\ Len(delays) >= 1)
    /\ (IsSome(lastError) /\ ~RetryableClass(Val(lastError))) =>
            /\ Raised(Val(lastError))
            /\ sends = attempt + 1
            /\ Len(delays) = attempt
            /\ attempt = 0 => (sends = 1 /\ delays = <<>>)

\* a 404 on the first send, with retries left, is raised after exactly one send
C6_Witness ==
    /\ hpc = "thrown"
    /\ maxRetries = 2
    /\ Val(lastError).name = "ElfaApiError"
    /\ Val(lastError).statusCode = Some(404)
    /\ sends = 1
    /\ delays = <<>>

\* C7 (as claimed): with attempt limit N (the configured retries, 3 by default)
\* a request is sent at most N times in total.
C7_AtMostNSends == (hpc # "idle" /\ maxRetries >= 1) => sends <= maxRetries

\* C7 (amended): with N the configured retries (3 by default) a request is sent at
\* most N + 1 times in total: once, and again after each of up to N retryable
\* failures; with the defaults at most 4 times.
C7_AtMostNPlusOneSends ==
    hpc # "idle" =>
        /\ sends <= maxRetries + 1
        /\ sends = attempt + 1
        /\ (httpOptions.retries = None /\ maxRetries = DefaultRetries) => sends <= 4

\* with the default retries a request that keeps failing was sent 4 times
C7_Witness ==
    /\ hpc = "thrown"
    /\ httpOptions.retries = None
    /\ maxRetries = DefaultRetries
    /\ sends = 4
    /\ RetryableClass(Val(lastError))

HeaderGiven(h) == IsSome(h) /\ Val(h) # <<>>

\* C8: the response-error handler maps a response with status 401 to
\* AuthenticationError, one with status 429 to RateLimitError, which carries a
\* reset time exactly when an x-ratelimit-reset or retry-after header has a value,
\* any other error response to ElfaApiError with that status and the extracted body
\* message, and a failure without response to NetworkError.
C8_Classification ==
    (IsSome(axiosError) /\ IsSome(lastError)) =>
        LET a == Val(axiosError)
            e == Val(lastError)
        IN IF IsSome(a.response)
           THEN LET r == Val(a.response)
                IN /\ e.message = <<extractErrorMessage(r.data)>>
                   /\ e.statusCode = Some(r.status)
                   /\ r.status = 401 => e.name = "AuthenticationError"
                   /\ r.status = 429 =>
                        /\ e.name = "RateLimitError"
                        /\ IsSome(e.resetTime) <=>
                             (HeaderGiven(r.headers.x_ratelimit_reset)
                                \/ HeaderGiven(r.headers.retry_after))
                   /\ r.status \notin {401, 429} =>
                        (e.name = "ElfaApiError" /\ e.resetTime = None)
           ELSE /\ e.name = "NetworkError"
                /\ e.statusCode = None

\* a 429 with only a retry-after header of "60" became a RateLimitError with a
\* reset time
C8_Witness ==
    /\ IsSome(axiosError)
    /\ IsSome(Val(axiosError).response)
    /\ Val(Val(axiosError).response).status = 429
    /\ Val(Val(axiosError).response).headers.x_ratelimit_reset = None
    /\ Val(Val(axiosError).response).headers.retry_after = Some(<<"6", "0">>)
    /\ Val(lastError).name = "RateLimitError"
    /\ IsSome(Val(lastError).resetTime)

-----------------------------------------------------------------------------
(* Properties of the ElfaV2Client endpoints (checked under ApiSpec) *)

TrendingEndpoints == {"getTrendingTokens", "getTrendingCAsTwitter", "getTrendingCAsTelegram"}
OtherTimedEndpoints ==
    {"getKeywordMentions", "getTokenNews", "getTopMentions", "getV1TopMentions",
     "getEventSummary"}

P == Val(params)
WindowSupplied == IsSome(P.timeWindow) /\ Val(P.timeWindow) # ""
NoTimeSupplied == ~WindowSupplied /\ P.from = None /\ P.to = None
OneOfFromTo == (P.from = None) # (P.to = None)

RejectedUnsent ==
    /\ apc = "thrown"
    /\ IsSome(aerror)
    /\ Val(aerror).name = "ValidationError"
    /\ requests = <<>>

HasParam(query, key, value) == \E k \in 1..Len(query) : query[k] = <<key, value>>
HasKey(query, key) == \E k \in 1..Len(query) : query[k][1] = key

\* C9: getTrendingTokens, getTrendingCAsTwitter and getTrendingCAsTelegram raise
\* ValidationError and issue no request when neither timeWindow nor from/to is
\* supplied and when exactly one of from/to is supplied (also with a timeWindow);
\* with timeWindow, from and to all supplied no error is raised and the request
\* carries all three.
C9_TrendingValidation ==
    (apc # "idle" /\ endpoint \in TrendingEndpoints) =>
        /\ NoTimeSupplied => RejectedUnsent
        /\ OneOfFromTo => RejectedUnsent
        /\ (WindowSupplied /\ P.from # None /\ P.to # None) =>
            /\ apc = "returned"
            /\ aerror = None
            /\ Len(requests) = 1
            /\ HasParam(requests[1].query, "timeWindow", Val(P.timeWindow))
            /\ HasParam(requests[1].query, "from", NumberToString(Val(P.from)))
            /\ HasParam(requests[1].query, "to", NumberToString(Val(P.to)))

\* a timeWindow with only from is rejected before any request
C9_Witness ==
    /\ endpoint = "getTrendingTokens"
    /\ apc = "thrown"
    /\ WindowSupplied
    /\ P.from = Some(1000)
    /\ P.to = None
    /\ requests = <<>>

\* C10 (as claimed): getKeywordMentions, getTokenNews, getTopMentions,
\* getV1TopMentions and getEventSummary raise ValidationError without issuing a
\* request when neither a timeWindow nor a from/to range is supplied and when
\* exactly one of from/to is supplied.
C10_OtherEndpointsValidateTime ==
    (apc # "idle" /\ endpoint \in OtherTimedEndpoints) =>
        ((NoTimeSupplied \/ OneOfFromTo) => RejectedUnsent)

\* the identifier an endpoint requires is missing
IdentifierMissing ==
    CASE endpoint = "getKeywordMentions" ->
            P.keywords = None /\ P.accountName = None
      [] endpoint \in {"getTopMentions", "getV1TopMentions"} -> P.ticker = None
      [] endpoint = "getEventSummary" -> P.keywords = None
      [] OTHER -> FALSE

\* C10 (amended): these five endpoints do not validate the time parameters: each
\* raises ValidationError without a request exactly when its required identifier
\* is missing (getTokenNews requires none), and otherwise, also with no time
\* parameter or with only one of from/to, sends one request that carries just the
\* time parameters supplied.
C10_OtherEndpointsSendAsGiven ==
    (apc # "idle" /\ endpoint \in OtherTimedEndpoints) =>
        IF IdentifierMissing THEN RejectedUnsent
        ELSE /\ apc = "returned"
             /\ aerror = None
             /\ Len(requests) = 1
             /\ HasKey(requests[1].query, "timeWindow") <=> WindowSupplied
             /\ HasKey(requests[1].query, "from") <=> (P.from # None)
             /\ HasKey(requests[1].query, "to") <=> (P.to # None)

\* getKeywordMentions with keywords and only from is sent
C10_Witness ==
    /\ endpoint = "getKeywordMentions"
    /\ apc = "returned"
    /\ P.keywords = Some("btc")
    /\ ~WindowSupplied
    /\ P.from = Some(1000)
    /\ P.to = None
    /\ Len(requests) = 1
    /\ ~HasKey(requests[1].query, "timeWindow")

-----------------------------------------------------------------------------
(* Properties of TwitterClient.getTweets (checked under TwSpec) *)

GetTweetsRaised == tpc = "thrown" /\ IsSome(tresult) /\ ~Val(tresult).ok
GetTweetsReturned == tpc = "returned" /\ IsSome(tresult) /\ Val(tresult).ok

\* C11: getTweets with zero ids returns {data: []} and with more than 100 ids
\* raises a TwitterApiError, in both cases without handing anything to the
\* transport; with 1 to 100 ids exactly one lookup, carrying all the ids in
\* their order, is handed to the transport.
C11_FailFastOrOneLookup ==
    tpc # "idle" =>
        /\ Len(trequest) = 0 =>
              /\ GetTweetsReturned
              /\ Val(tresult).value.data = <<>>
              /\ transport = <<>>
        /\ Len(trequest) > 100 =>
              /\ GetTweetsRaised
              /\ Val(tresult).value.name = "TwitterApiError"
              /\ transport = <<>>
        /\ (Len(trequest) >= 1 /\ Len(trequest) <= 100) =>
              /\ Len(transport) = 1
              /\ transport[1].path = "/tweets"
              /\ transport[1].ids = trequest

C11_Witness ==
    /\ GetTweetsRaised
    /\ Len(trequest) = 101
    /\ transport = <<>>

-----------------------------------------------------------------------------
(* Properties of the enhancer on a TwitterClient (checked under EngineSpec) *)

LastAnswer == transport[Len(transport)].answer

\* the HTTP call of the last lookup succeeded with a body that lists errors
BodyListedErrors ==
    /\ transport # <<>>
    /\ IsSome(LastAnswer)
    /\ Val(LastAnswer).ok
    /\ HasErrors(Val(LastAnswer).value)

\* the HTTP call of the last lookup failed
TransportFailed ==
    /\ transport # <<>>
    /\ IsSome(LastAnswer)
    /\ ~Val(LastAnswer).ok

\* part occurs in message as a run of consecutive pieces
Contains(message, part) ==
    \E k \in 1..(Len(message) - Len(part) + 1) :
        SubSeq(message, k, k + Len(part) - 1) = part

\* the way the enhancer ends after its getTweets call raised error
HandledAsFailure(error) ==
    /\ calls[Len(calls)].outcome = "rejected"
    /\ calls[Len(calls)].error = Some(error)
    /\ options.fallbackToV2 = Some(TRUE) =>
          /\ Returned
          /\ Len(Data) = Len(mentions)
          /\ \A k \in 1..Len(Data) : SourceOnly(k)
          /\ Info.failed_enhancements = Len(mentions)
          /\ Info.errors = Some(<<error.message>>)
    /\ options.fallbackToV2 = Some(FALSE) =>
          /\ pc = "thrown"
          /\ result = None
          /\ Val(thrown).name = "EnhancementError"

\* C12: when the HTTP call of getTweets succeeds with a body whose errors list
\* is not empty, getTweets does not return the body but raises a
\* TwitterApiError whose message contains "Twitter API errors: " followed by
\* the titles joined with ", "; the enhancer ends on that error as it ends on
\* the error of a failed HTTP call: the degraded result when fallbackToV2 is
\* true, an EnhancementError when it is false.
C12_BodyErrorsRaiseAndFallBack ==
    /\ BodyListedErrors =>
          /\ GetTweetsRaised
          /\ Val(tresult).value.name = "TwitterApiError"
          /\ Contains(Val(tresult).value.message,
                      <<"Twitter API errors: ">>
                          \o Join([k \in 1..Len(Val(Val(LastAnswer).value.errors)) |->
                                      Val(Val(LastAnswer).value.errors)[k].title]))
    /\ ((BodyListedErrors \/ TransportFailed) /\ pc # "awaiting") =>
          HandledAsFailure(Val(tresult).value)

C12_Witness ==
    /\ BodyListedErrors
    /\ Len(Val(Val(LastAnswer).value.errors)) = 2
    /\ Len(calls) = 2
    /\ Returned
    /\ options.fallbackToV2 = Some(TRUE)

-----------------------------------------------------------------------------
(* Properties of the ElfaSDK options (checked under SdkOptionsSpec) *)

\* C17: after any sequence of updateOptions calls getOptions().elfaApiKey and
\* getOptions().twitterApiKey are the values given at construction, and an
\* updateOptions call that names a credential field raises ValidationError.
C17_CredentialsFixed ==
    /\ getOptions.elfaApiKey = constructorOptions.elfaApiKey
    /\ getOptions.twitterApiKey = constructorOptions.twitterApiKey

-----------------------------------------------------------------------------
(* Properties of the ElfaSDK operations (checked under SdkSpec) *)

SdkP == Val(sdkParams)
PrimaryOk == IsSome(primary) /\ Val(primary).ok
PrimaryFailed == IsSome(primary) /\ ~Val(primary).ok
PrimaryResponse == Val(primary).value
SdkValue == Val(sdkResult).value

\* the per-call fetchRawTweets when given, otherwise the instance's
RawTweetsRequested ==
    IF SdkP.fetchRawTweets # None THEN SdkP.fetchRawTweets = Some(TRUE)
    ELSE sdkOptions.fetchRawTweets = TRUE

TwitterConfigured == constructorOptions.twitterApiKey \notin {None, Some("")}

\* C13: in getKeywordMentions, getTokenNews and getMentionsByKeywords the
\* enhancer is invoked iff the per-call fetchRawTweets (the instance's when
\* none is given) is true and a Twitter client was configured at
\* construction; without the enhancer the primary response itself is returned,
\* which has no enhancement_info field; with it the primary response is
\* returned with data replaced by the enhanced records and with an
\* enhancement_info field.
C13_EnhancerInvokedIffRequested ==
    (sdkOp \in EnhancedOps /\ PrimaryOk) =>
        /\ enhancerInvoked <=> (RawTweetsRequested /\ TwitterConfigured)
        /\ enhancerInvoked <=> (op # "none")
        /\ (spc = "returned" /\ ~enhancerInvoked) =>
              /\ sdkResult = Some([ok |-> TRUE, value |-> PrimaryResponse])
              /\ "enhancement_info" \notin DOMAIN SdkValue
        /\ (spc = "returned" /\ enhancerInvoked) =>
              /\ Val(sdkResult).ok
              /\ SdkValue.metadata = PrimaryResponse.metadata
              /\ "enhancement_info" \in DOMAIN SdkValue
              /\ SdkValue.enhancement_info = Val(result).enhancement_info
              /\ SdkValue.data = Val(result).data
              /\ Len(SdkValue.data) = Len(PrimaryResponse.data)
              /\ \A k \in 1..Len(SdkValue.data) :
                    /\ SdkValue.data[k].mention = PrimaryResponse.data[k]
                    /\ SdkValue.data[k].data_source \in {"elfa", "elfa+twitter"}

C13_Witness ==
    /\ sdkOp \in EnhancedOps
    /\ spc = "returned"
    /\ enhancerInvoked
    /\ SdkP.fetchRawTweets = Some(TRUE)
    /\ sdkOptions.fetchRawTweets = FALSE
    /\ CountEnhanced(SdkValue.data) = 1
    /\ Len(SdkValue.data) = 2

NoFallbackOverride ==
    \/ SdkP.enhancementOptions = None
    \/ Val(SdkP.enhancementOptions).fallbackToV2 = None

\* C14: with strictMode false and no per-call fallbackToV2, once the primary
\* fetch has succeeded a rejected getTweets call (whatever its error, in
\* whatever chunk) does not make the operation raise: it returns every
\* primary record tagged 'elfa' and reports the failure in enhancement_info.
\* With strictMode true the operation raises EnhancementError.
C14_StrictModeDecidesFallback ==
    (sdkOp \in EnhancedOps /\ PrimaryOk /\ enhancerInvoked /\ SomeCallRejected
        /\ NoFallbackOverride) =>
        IF ~sdkOptions.strictMode
        THEN /\ spc = "returned"
             /\ Val(sdkResult).ok
             /\ Len(SdkValue.data) = Len(PrimaryResponse.data)
             /\ \A k \in 1..Len(SdkValue.data) :
                   /\ SdkValue.data[k].mention = PrimaryResponse.data[k]
                   /\ SdkValue.data[k].data_source = "elfa"
                   /\ SdkValue.data[k].twitter_data = None
             /\ SdkValue.enhancement_info.total_enhanced = 0
             /\ SdkValue.enhancement_info.failed_enhancements = Len(PrimaryResponse.data)
             /\ SdkValue.enhancement_info.errors = Some(<<RejectionError.message>>)
        ELSE /\ spc = "thrown"
             /\ ~Val(sdkResult).ok
             /\ SdkValue.name = "EnhancementError"
             /\ SdkValue.details = RejectionError

C14_Witness ==
    /\ sdkOp \in EnhancedOps
    /\ PrimaryOk
    /\ NoFallbackOverride
    /\ ~sdkOptions.strictMode
    /\ Len(calls) = 2
    /\ calls[1].outcome = "resolved"
    /\ calls[2].outcome = "rejected"
    /\ spc = "returned"

\* C15: Twitter requests occur only after the primary response was received;
\* when the primary fetch fails (ValidationError before the network, or a
\* transport error) the operation raises that error unchanged, the enhancer
\* is not invoked and no Twitter request is issued.
C15_PrimaryFirst ==
    /\ calls # <<>> => PrimaryOk
    /\ spc = "primary" => (calls = <<>> /\ ~enhancerInvoked)
    /\ (sdkOp \in EnhancedOps /\ PrimaryFailed) =>
          /\ spc = "thrown"
          /\ sdkResult = Some([ok |-> FALSE, value |-> Val(primary).value])
          /\ ~enhancerInvoked
          /\ op = "none"
          /\ calls = <<>>

C15_Witness ==
    /\ sdkOp \in EnhancedOps
    /\ PrimaryFailed
    /\ Val(primary).value.name = "NetworkError"
    /\ RawTweetsRequested
    /\ TwitterConfigured
    /\ spc = "thrown"

\* the answer of the k-th probe
ProbeUp(k) ==
    /\ IsSome(probes[k].answer)
    /\ Val(probes[k].answer).ok
    /\ IF probes[k].leg = "elfa"
       THEN Val(probes[k].answer).value.success = TRUE
       ELSE Val(probes[k].answer).value # ""

\* C16: testConnection never raises; elfa is true only if the Elfa probe
\* succeeded; twitter is present iff a Twitter client is configured and
\* reflects the Twitter probe only; the Twitter probe runs also after a
\* failed Elfa probe and does not run without a Twitter client.
C16_ProbesIndependent ==
    sdkOp = "testConnection" =>
        /\ spc # "thrown"
        /\ \A k \in 1..Len(probes) : probes[k].leg = "twitter" => TwitterConfigured
        /\ spc = "returned" =>
              /\ Val(sdkResult).ok
              /\ probes[1].leg = "elfa"
              /\ SdkValue.elfa = ProbeUp(1)
              /\ IsSome(SdkValue.twitter) <=> TwitterConfigured
              /\ IF TwitterConfigured
                 THEN /\ Len(probes) = 2
                      /\ probes[2].leg = "twitter"
                      /\ SdkValue.twitter = Some(ProbeUp(2))
                 ELSE Len(probes) = 1

C16_Witness ==
    /\ sdkOp = "testConnection"
    /\ spc = "returned"
    /\ ~Val(probes[1].answer).ok
    /\ SdkValue = [elfa |-> FALSE, twitter |-> Some(TRUE)]

\* C20: no getTweets call of the enhancer carries more than 100 ids, whatever
\* the construction options, the updateOptions calls and the per-call
\* enhancementOptions; the 'more than 100 tweets' rejection never arises
\* through the enhancer.
C20_NoLookupOverCap ==
    \A k \in 1..Len(calls) :
        /\ Len(calls[k].ids) <= 100
        /\ calls[k].outcome = "rejected" =>
              Val(calls[k].error).message # <<"Cannot fetch more than 100 tweets at once">>

-----------------------------------------------------------------------------
(* Properties of calculateEnhancedMetrics (checked under MetricsSpec) *)

Impressions == Val(mtweet.public_metrics).impression_count

\* C18: engagement_rate is set only when the tweet has public metrics with
\* impression_count present and greater than 0, and then it is (like_count +
\* retweet_count + reply_count + quote_count) / impression_count; when
\* impressions is absent or 0 the field is omitted and nothing is divided.
C18_EngagementRateGuarded ==
    mmetrics # None =>
        IF /\ mtweet.public_metrics # None
           /\ Impressions # None
           /\ Val(Impressions) > 0
        THEN Val(mmetrics).engagement_rate =
                Some(<<Val(mtweet.public_metrics).like_count
                         + Val(mtweet.public_metrics).retweet_count
                         + Val(mtweet.public_metrics).reply_count
                         + Val(mtweet.public_metrics).quote_count,
                       Val(Impressions)>>)
        ELSE Val(mmetrics).engagement_rate = None

C18_Witness ==
    /\ mmetrics # None
    /\ mtweet.public_metrics # None
    /\ Impressions = Some(0)
    /\ Val(mtweet.public_metrics).like_count = 20
    /\ Val(mmetrics).engagement_rate = None
    /\ Val(mmetrics).impression_count = Some(0)

-----------------------------------------------------------------------------
(* The default of fallbackToV2 (checked under Spec) *)

\* C19: in every enhance operation, when fallbackToV2 is not specified and a
\* getTweets call raises, the operation raises nothing and returns the
\* degraded result: every record tagged 'elfa', failed_enhancements = number
\* of input records.
C19_FallbackDefaultsToTrue ==
    (pc \in {"returned", "thrown"} /\ SomeCallRejected /\ options.fallbackToV2 = None) =>
        /\ Returned
        /\ thrown = None
        /\ Len(Data) = Len(mentions)
        /\ \A k \in 1..Len(Data) : SourceOnly(k)
        /\ Info.failed_enhancements = Len(mentions)

-----------------------------------------------------------------------------
(* The empty id set (checked under Spec) *)

\* C21: in the three mention operations, when there is no id to fetch (empty
\* input, or no record yields an id) the result is the one of the
\* no-Twitter-client case: every record tagged 'elfa', total_enhanced = 0,
\* failed_enhancements = 0, twitter_api_used = false, and getTweets is not
\* called.
C21_EmptyIdSetShortCircuits ==
    (op \in MentionOps /\ pc # "idle" /\ tweetIds = <<>>) =>
        /\ Returned
        /\ calls = <<>>
        /\ Len(Data) = Len(mentions)
        /\ \A k \in 1..Len(Data) : SourceOnly(k)
        /\ Info.total_enhanced = 0
        /\ Info.failed_enhancements = 0
        /\ Info.twitter_api_used = FALSE

-----------------------------------------------------------------------------
(* The reset time of a rate-limited response (checked under HttpSpec) *)

\* C22: a 429 response whose rate-limit information is a retry-after header of
\* S seconds (here 60) becomes a RateLimitError whose resetTime is the instant
\* S seconds after the response was received, and the request is retried
\* per the backoff policy up to the configured attempt limit.
C22_ResetTimeIsReceiptPlusRetryAfter ==
    (/\ IsSome(axiosError)
     /\ IsSome(Val(axiosError).response)
     /\ Val(Val(axiosError).response).status = 429
     /\ ~HeaderGiven(Val(Val(axiosError).response).headers.x_ratelimit_reset)
     /\ Val(Val(axiosError).response).headers.retry_after = Some(<<"6", "0">>)) =>
        /\ IsSome(lastError)
        /\ Val(lastError).name = "RateLimitError"
        /\ Val(lastError).resetTime = Some([time |-> Some(Val(receivedAt) + 60 * 1000)])
        /\ hpc = "thrown" => attempt = maxRetries

-----------------------------------------------------------------------------
(* Properties of the PaginationHelper collectors (checked under PagSpec) *)

\* the concatenation of the pages fetched, in fetch order
RECURSIVE Concatenation(_)
Concatenation(log) ==
    IF log = <<>> THEN <<>>
    ELSE Concatenation(SubSeq(log, 1, Len(log) - 1))
            \o (IF IsSome(log[Len(log)].response)
                THEN Val(log[Len(log)].response).data ELSE <<>>)

\* the number of items collected when the first k pages had arrived
CollectedAfter(k) == Len(Concatenation(SubSeq(fetched, 1, k)))

\* the k-th page fetched is the last one: its page number has reached
\* ceil(total/pageSize), or it carries no cursor
IsLastPage(k) ==
    LET metadata == Val(fetched[k].response).metadata
    IN IF collector = "collectAllPages"
       THEN fetched[k].params.page >= Ceil(metadata.total, metadata.pageSize)
       ELSE ~StringTruthy(metadata.cursor)

Collected == ppc = "returned" /\ IsSome(collected) /\ Val(collected).ok

\* C23: with a maxItems limit, collectAllPages and collectAllCursor never return
\* more than maxItems items: they return exactly the first maxItems items of the
\* concatenation of the pages in fetch order when that many exist, and fetch no
\* further page once the collected count has reached maxItems; without a limit
\* they return the concatenation of all pages up to the last page.
C23_CollectorsRespectMaxItems ==
    /\ (Collected /\ IsSome(maxItems)) =>
            LET all == Concatenation(fetched)
                n == Val(maxItems)
            IN /\ Len(Val(collected).value) <= n
               /\ Len(all) >= n => Val(collected).value = SubSeq(all, 1, n)
    /\ (ppc # "idle" /\ IsSome(maxItems)) =>
            \A k \in 1..(Len(fetched) - 1) : CollectedAfter(k) < Val(maxItems)
    /\ (Collected /\ maxItems = None) =>
            /\ Val(collected).value = Concatenation(fetched)
            /\ \A k \in 1..Len(fetched) : IsLastPage(k) <=> k = Len(fetched)

-----------------------------------------------------------------------------
(* The chunking of fetchTwitterData (checked under Spec) *)

\* the ids of the first k getTweets calls, joined in call order
RECURSIVE ChunksJoined(_)
ChunksJoined(k) == IF k = 0 THEN <<>> ELSE ChunksJoined(k - 1) \o IdsPassed(k)

\* C24: for N ids to fetch and effective batch size B >= 1 (options.batchSize
\* when set, otherwise the configured default) an invocation whose fetches all
\* succeed calls getTweets exactly ceil(N/B) times, each call carries at most B
\* ids, and the chunks are consecutive, disjoint slices that together cover the
\* id list in order.
C24_ChunksCoverIdsInOrder ==
    LET B == EffectiveBatchSize(options, batchSize)
        N == Len(tweetIds)
    IN (pc # "idle" /\ B >= 1) =>
        /\ \A k \in 1..Len(calls) :
              /\ Len(IdsPassed(k)) <= B
              /\ IdsPassed(k) =
                    SubSeq(tweetIds, (k - 1) * B + 1, IF k * B < N THEN k * B ELSE N)
        /\ (FetchSucceeded /\ ~SomeCallRejected) =>
              /\ Len(calls) = Ceil(N, B)
              /\ ChunksJoined(Len(calls)) = tweetIds

\* two ids fetched one at a time: two calls, each with one id, all resolved
C24_Witness ==
    /\ FetchSucceeded
    /\ ~SomeCallRejected
    /\ Len(tweetIds) = 2
    /\ EffectiveBatchSize(options, batchSize) = 1
    /\ Len(calls) = 2
    /\ IdsPassed(1) = <<tweetIds[1]>>
    /\ IdsPassed(2) = <<tweetIds[2]>>

-----------------------------------------------------------------------------
(* The retry schedule of HttpClient.request (checked under HttpSpec) *)

\* the delays waited after the first n failed sends: retryDelay * 2^k after the
\* k-th (0-based) one
Schedule(n) == [k \in 1..n |-> retryDelay * Pow2(k - 1)]

\* C25: with retry count R a request that fails with a retryable error on every
\* attempt is sent exactly R+1 times, retryDelay * 2^k is waited between the
\* k-th (0-based) failed send and the next send, nothing is waited after the
\* final failure, and the error of the last attempt is raised; if an attempt
\* succeeds its response body is returned and no further send occurs.
C25_RetrySchedule ==
    /\ [](hpc # "idle" =>
            /\ delays = Schedule(IF hpc = "delaying" THEN attempt + 1 ELSE attempt)
            /\ (hpc = "thrown" /\ RetryableClass(Val(lastError))) =>
                    /\ sends = maxRetries + 1
                    /\ Len(delays) = maxRetries
                    /\ Raised(Val(lastError))
            /\ hpc = "returned" =>
                    /\ hresult = Some([ok |-> TRUE, value |-> "response.data"])
                    /\ sends = attempt + 1)
    /\ [][(hpc = "returned" \/ hpc = "thrown") => (sends' = sends /\ delays' = delays)]_vars

\* with 2 retries and retryDelay 5 every send failed with a retryable error:
\* 3 sends, delays 5 and 10, then the error
C25_Witness ==
    /\ hpc = "thrown"
    /\ RetryableClass(Val(lastError))
    /\ maxRetries = 2
    /\ retryDelay = 5
    /\ sends = 3
    /\ delays = <<5, 10>>

\* the second attempt succeeded: its body was returned after 2 sends
C25_WitnessSuccess ==
    /\ hpc = "returned"
    /\ maxRetries = 2
    /\ sends = 2
    /\ Len(delays) = 1

-----------------------------------------------------------------------------
(* The sequencing of the getTweets calls (checked under Spec) *)

InFlight(k) == calls[k].outcome = "pending"

\* a step that requests a chunk requests one chunk, with every earlier call
\* answered; no step after a failed call changes the calls
NextChunkAfterResponse ==
    /\ Len(calls') > Len(calls) =>
            /\ Len(calls') = Len(calls) + 1
            /\ \A k \in 1..Len(calls) : calls'[k].outcome = "resolved"
    /\ SomeCallRejected => calls' = calls

\* C26: within one invocation at most one getTweets call is in flight: chunks
\* are requested in input order, chunk k+1 only after the response of chunk k
\* was received, and after a chunk's fetch failed no later chunk is requested.
C26_OneCallInFlight ==
    /\ [](/\ Cardinality({k \in 1..Len(calls) : InFlight(k)}) <= 1
          /\ \A k \in 1..(Len(calls) - 1) : calls[k].outcome = "resolved"
          /\ (calls # <<>> /\ InFlight(Len(calls))) <=> pc = "awaiting"
          /\ \A k \in 1..Len(calls) :
                IdsPassed(k) = Slice(tweetIds, Len(ChunksJoined(k - 1)),
                                     EffectiveBatchSize(options, batchSize)))
    /\ [][NextChunkAfterResponse]_vars

\* the second chunk is in flight after the first one was answered
C26_Witness ==
    /\ pc = "awaiting"
    /\ Len(calls) = 2
    /\ calls[1].outcome = "resolved"
    /\ InFlight(2)
    /\ IdsPassed(1) = <<tweetIds[1]>>
    /\ IdsPassed(2) = <<tweetIds[2]>>

-----------------------------------------------------------------------------
(* The ranges of the ElfaSDK options (checked under SdkOptionsSpec) *)

\* C27: in every state of a constructed ElfaSDK, after construction and any
\* sequence of updateOptions calls, options.maxBatchSize is within [1,100] and
\* options.enhancementTimeout is at least 1000: construction with a missing
\* elfaApiKey, a maxBatchSize outside [1,100] or an enhancementTimeout below
\* 1000 raises ValidationError, and no later update moves them out of range.
C27_OptionsStayInRange ==
    /\ \A o \in ConstructorOptionValues :
          (\/ o.elfaApiKey = ""
           \/ IsSome(o.maxBatchSize) /\ Val(o.maxBatchSize) \notin 1..100
           \/ IsSome(o.enhancementTimeout) /\ Val(o.enhancementTimeout) < 1000)
             => (IsSome(validateOptions(o)) /\ constructorOptions # o)
    /\ getOptions.maxBatchSize \in 1..100
    /\ getOptions.enhancementTimeout >= 1000

-----------------------------------------------------------------------------
(* Termination of the enhance operations (checked under TermSpec) *)

\* C28: every enhance invocation terminates: for any finite input list and any
\* options.batchSize a caller can pass, negative values included, the chunking
\* loop makes finitely many getTweets calls and the operation completes with a
\* result or an error, given that each getTweets call returns or raises.
\* (Finitely many: the loop index advances past one id at least with each call,
\* so there are never more calls than ids.)
C28_EnhanceTerminates ==
    /\ [](pc # "idle" => Len(calls) <= Len(tweetIds))
    /\ (pc = "awaiting") ~> (pc = "returned" \/ pc = "thrown")

-----------------------------------------------------------------------------
(* Calls and option updates on one instance (checked under SdkSpec) *)

\* while a call awaits its primary fetch, a step leaves the enhancement decision
\* and the enhancement options the call will use as they were
DecisionKeptWhileAwaiting ==
    (spc = "primary" /\ spc' = "primary") =>
        /\ shouldEnhanceResponse(Val(sdkParams))' = shouldEnhanceResponse(Val(sdkParams))
        /\ buildEnhancementOptions(Val(sdkParams))' = buildEnhancementOptions(Val(sdkParams))

\* C29: calls on one instance do not interfere through instance state: the
\* enhancement decision and the enhancement options (fallback, batch size) used
\* by an in-flight call are those in force when the call started, so an
\* updateOptions call that interleaves while the call awaits its primary fetch
\* changes neither whether the call enhances nor how it degrades.
C29_InFlightCallKeepsItsOptions == [][DecisionKeptWhileAwaiting]_vars

-----------------------------------------------------------------------------
(* The error of a response that lists errors (checked under TwSpec) *)

\* C30: the TwitterApiError raised inside the try block of getTweets for a
\* response errors list reaches the caller unchanged, with the message
\* 'Twitter API errors: <titles>'; it is not wrapped in a second TwitterApiError
\* with a 'Failed to fetch ...' prefix, which only other errors get.
C30_BodyErrorsNotWrapped ==
    BodyListedErrors =>
        /\ GetTweetsRaised
        /\ Val(tresult).value = BodyErrorsFailure(Val(Val(LastAnswer).value.errors))
        /\ ~Contains(Val(tresult).value.message, <<"Failed to fetch tweets: ">>)

====
